---- MODULE Spec2Model ----
(***************************************************************************)
(* A model of the TDP MMU of arch/x86/kvm/mmu/tdp_mmu.c: the registry of   *)
(* root page-table pages, the bookkeeping that follows every SPTE change,  *)
(* the range zap and the page-fault mapping path.                          *)
(*                                                                         *)
(* An SPTE is a record of the bit fields the code tests.  A page-table     *)
(* page is named by a small natural number; its physical frame number is   *)
(* that number shifted past the frames of guest memory, so a frame of      *)
(* guest memory and the frame of a page table never coincide.              *)
(*                                                                         *)
(* Every handler is an operator from the memory it runs on to the memory   *)
(* it leaves, together with the ordered log of what it did (entry writes,  *)
(* handle_changed_spte calls, TLB flush requests, frees, notifications).   *)
(* nx_huge_pages is taken to be off, so disallowed_hugepage_adjust never   *)
(* runs, and the statistics counter pf_fixed is left out.                  *)
(***************************************************************************)
EXTENDS Integers, Sequences, FiniteSets, TLC

\* ------------------------------------------------------------- bounds
\* Entries per page-table page (512 in the kernel).
PT64_ENT_PER_PAGE == 3
\* vcpu->arch.mmu->shadow_root_level (4 or 5 in the kernel).
RootLevel == 3
\* Guest frames the operations are invoked on: 0..MaxGfn.
MaxGfn == 3
\* Host frames of guest memory: 1..MaxPfn.
MaxPfn == 2
\* vCPU threads of the registry specification.
NumVcpus == 2
\* Yields of one kvm_tdp_mmu_zap_gfn_range after which the lock is left to it.
MaxYields == 2

PG_LEVEL_4K == 1

\* Return values of the page-fault path.
RET_PF_RETRY == 0
RET_PF_EMULATE == 1
RET_PF_INVALID == 2
RET_PF_FIXED == 3
RET_PF_SPURIOUS == 4

\* The return code make_spte gives when it had to write-protect the mapping.
SET_SPTE_WRITE_PROTECTED_PT == 1

\* The pfn handed to the fault path for a gfn outside every memslot.
KVM_PFN_NOSLOT == 0

Gfns == 0..MaxGfn
Pfns == 1..MaxPfn
Vcpus == 1..NumVcpus
\* Levels a leaf can be installed at: below the root, as the largest huge
\* page (1G, level 3) is below the root of a 4- or 5-level table.
LeafLevels == PG_LEVEL_4K..(RootLevel - 1)
PtIndexes == 0..(PT64_ENT_PER_PAGE - 1)

RECURSIVE KVM_PAGES_PER_HPAGE(_)
KVM_PAGES_PER_HPAGE(level) ==
    IF level <= PG_LEVEL_4K THEN 1
    ELSE PT64_ENT_PER_PAGE * KVM_PAGES_PER_HPAGE(level - 1)

\* 1 << (boot_cpu_data.x86_phys_bits - PAGE_SHIFT): the guest frames the
\* physical address width of the host holds.  The width is a property of
\* the processor and not of the paging depth: with 39 physical address bits
\* and 4-level paging it is what one entry of the root covers, and so it is
\* here.
max_gfn == KVM_PAGES_PER_HPAGE(RootLevel)

\* The guest frames a root covers.
tdp_root_gfns == KVM_PAGES_PER_HPAGE(RootLevel + 1)

\* Page-table pages.  A walk allocates at most RootLevel - 1 pages; the pool
\* is never the limit.
PageIds == 1..(NumVcpus + 1 + MaxGfn + RootLevel)

\* ------------------------------------------------------------- SPTE codec
SPTE_ZERO ==
    [present |-> FALSE, mmio |-> FALSE, large |-> FALSE, pfn |-> 0,
     writable |-> FALSE, dirty |-> FALSE, accessed |-> FALSE]

is_mmio_spte(spte) == spte.mmio

is_shadow_present_pte(spte) == spte # SPTE_ZERO /\ ~is_mmio_spte(spte)

is_large_pte(spte) == spte.large

is_last_spte(spte, level) ==
    IF level = PG_LEVEL_4K THEN TRUE
    ELSE is_large_pte(spte)

spte_to_pfn(spte) == spte.pfn

is_dirty_spte(spte) == spte.dirty

is_accessed_spte(spte) == spte.accessed

\* The frame of page-table page `pt`, and back.
PtPfn(pt) == MaxPfn + pt

spte_to_child_pt(spte, level) ==
    IF ~is_shadow_present_pte(spte) \/ is_last_spte(spte, level) THEN 0
    ELSE spte_to_pfn(spte) - MaxPfn

make_nonleaf_spte(child_pt, ad_disabled) ==
    [present |-> TRUE, mmio |-> FALSE, large |-> FALSE, pfn |-> PtPfn(child_pt),
     writable |-> TRUE, dirty |-> FALSE, accessed |-> ~ad_disabled]

\* An MMIO SPTE keeps the gfn in its address bits.
make_mmio_spte(gfn) ==
    [present |-> FALSE, mmio |-> TRUE, large |-> FALSE, pfn |-> gfn,
     writable |-> FALSE, dirty |-> FALSE, accessed |-> FALSE]

\* make_spte with pte_access = ACC_ALL and can_unsync = true: `wrprot` is
\* what mmu_need_write_protect answers for the gfn.
make_spte(level, pfn, speculative, host_writable, wrprot) ==
    LET writable == host_writable /\ ~wrprot
    IN [ret |-> IF host_writable /\ wrprot THEN SET_SPTE_WRITE_PROTECTED_PT ELSE 0,
        spte |-> [present |-> TRUE, mmio |-> FALSE, large |-> level > PG_LEVEL_4K,
                  pfn |-> pfn, writable |-> writable, dirty |-> writable,
                  accessed |-> ~speculative]]

is_noslot_pfn(pfn) == pfn = KVM_PFN_NOSLOT

\* ------------------------------------------------------------- memory
\* m.spt: the entries of every allocated page-table page;  m.sp: its
\* struct kvm_mmu_page;  m.pages: kvm->arch.tdp_mmu_pages;  m.log: what the
\* running handler has done so far;  m.bug: BUG() was reached.
Emit(m, e) == [m EXCEPT !.log = Append(@, e)]

EmptyPt == [i \in PtIndexes |-> SPTE_ZERO]

FreeIds(m) == PageIds \ DOMAIN m.spt

\* kvm_mmu_memory_cache_alloc: a page no one holds, 0 (no page) when the
\* allocator has none left to give (m.nobjs).
CacheAlloc(m) ==
    IF m.nobjs = 0 THEN 0
    ELSE CHOOSE p \in FreeIds(m) : \A q \in FreeIds(m) : p <= q

Restrict(f, S) == [x \in S |-> f[x]]

Extend(f, x, v) == [y \in DOMAIN f \cup {x} |-> IF y = x THEN v ELSE f[y]]

\* ------------------------------------------------------------- tdp_iter
\* A definition that ends in a digit continues the one named before it: it
\* takes the value just computed as a parameter.

\* The entry `sptep` points at.
READ_ONCE(m, sptep) == m.spt[sptep.pt][sptep.idx]

SHADOW_PT_INDEX(gfn, level) ==
    (gfn \div KVM_PAGES_PER_HPAGE(level)) % PT64_ENT_PER_PAGE

round_gfn_for_level(gfn, level) == gfn - (gfn % KVM_PAGES_PER_HPAGE(level))

tdp_iter_refresh_sptep1(m, iter, sptep) ==
    [iter EXCEPT !.sptep = sptep, !.old_spte = READ_ONCE(m, sptep)]

\* Recompute sptep and old_spte from the page table of the current level and gfn.
tdp_iter_refresh_sptep(m, iter) ==
    tdp_iter_refresh_sptep1(m, iter,
        [pt |-> iter.pt_path[iter.level],
         idx |-> SHADOW_PT_INDEX(iter.gfn, iter.level)])

tdp_iter_start(m, root_pt, root_level, min_level, goal_gfn) ==
    tdp_iter_refresh_sptep(m,
        [goal_gfn |-> goal_gfn, root_level |-> root_level, min_level |-> min_level,
         level |-> root_level,
         pt_path |-> [l \in 1..root_level |-> IF l = root_level THEN root_pt ELSE 0],
         gfn |-> round_gfn_for_level(goal_gfn, root_level),
         sptep |-> [pt |-> root_pt, idx |-> 0], old_spte |-> SPTE_ZERO,
         valid |-> TRUE])

\* The three steps answer [ok, iter]: whether the step was taken.
try_step_down2(m, iter, child_pt) ==
    IF child_pt = 0 THEN [ok |-> FALSE, iter |-> iter]
    ELSE [ok |-> TRUE,
          iter |-> tdp_iter_refresh_sptep(m,
              [iter EXCEPT !.level = @ - 1,
                           !.pt_path[iter.level - 1] = child_pt,
                           !.gfn = round_gfn_for_level(iter.goal_gfn, iter.level - 1)])]

\* `iter` has re-read its entry.
try_step_down1(m, iter) ==
    try_step_down2(m, iter, spte_to_child_pt(iter.old_spte, iter.level))

try_step_down(m, iter) ==
    IF iter.level = iter.min_level THEN [ok |-> FALSE, iter |-> iter]
    ELSE try_step_down1(m, [iter EXCEPT !.old_spte = READ_ONCE(m, iter.sptep)])

try_step_side1(m, iter, gfn, sptep) ==
    [ok |-> TRUE,
     iter |-> [iter EXCEPT !.gfn = gfn, !.goal_gfn = gfn, !.sptep = sptep,
                           !.old_spte = READ_ONCE(m, sptep)]]

try_step_side(m, iter) ==
    IF SHADOW_PT_INDEX(iter.gfn, iter.level) = PT64_ENT_PER_PAGE - 1
    THEN [ok |-> FALSE, iter |-> iter]
    ELSE try_step_side1(m, iter, iter.gfn + KVM_PAGES_PER_HPAGE(iter.level),
                        [iter.sptep EXCEPT !.idx = @ + 1])

try_step_up(m, iter) ==
    IF iter.level = iter.root_level THEN [ok |-> FALSE, iter |-> iter]
    ELSE [ok |-> TRUE,
          iter |-> tdp_iter_refresh_sptep(m,
              [iter EXCEPT !.level = @ + 1,
                           !.gfn = round_gfn_for_level(iter.gfn, iter.level + 1)])]

\* The do-while of tdp_iter_next: step to the side, else up and try again.
RECURSIVE tdp_iter_side_or_up(_, _)
RECURSIVE tdp_iter_side_or_up1(_, _, _)
RECURSIVE tdp_iter_side_or_up2(_, _, _)

tdp_iter_side_or_up2(m, iter, up) ==
    IF up.ok THEN tdp_iter_side_or_up(m, up.iter)
    ELSE [iter EXCEPT !.valid = FALSE]

tdp_iter_side_or_up1(m, iter, side) ==
    IF side.ok THEN side.iter
    ELSE tdp_iter_side_or_up2(m, iter, try_step_up(m, iter))

tdp_iter_side_or_up(m, iter) ==
    tdp_iter_side_or_up1(m, iter, try_step_side(m, iter))

tdp_iter_next1(m, down) ==
    IF down.ok THEN down.iter ELSE tdp_iter_side_or_up(m, down.iter)

tdp_iter_next(m, iter) == tdp_iter_next1(m, try_step_down(m, iter))

\* tdp_iter_refresh_walk taking the walk up past the entry it last visited.
tdp_iter_refresh_walk_past_entry(m, iter) ==
    tdp_iter_start(m, iter.pt_path[iter.root_level], iter.root_level, iter.min_level,
                   iter.gfn + KVM_PAGES_PER_HPAGE(iter.level))

tdp_iter_refresh_walk(m, iter) ==
    tdp_iter_start(m, iter.pt_path[iter.root_level], iter.root_level, iter.min_level,
                   IF iter.gfn > iter.goal_gfn THEN iter.gfn ELSE iter.goal_gfn)

\* for_each_tdp_pte: the loop condition.
tdp_iter_continues(iter, end) == iter.valid /\ iter.gfn < end

\* ------------------------------------------------------------- handle_changed_spte
kvm_mmu_page_as_id(m, root) == IF m.sp[root].role.smm THEN 1 ELSE 0

\* free_page and kmem_cache_free of a page-table page.
free_page(m, pt) ==
    [m EXCEPT !.spt = Restrict(@, DOMAIN @ \ {pt}),
              !.sp = Restrict(@, DOMAIN @ \ {pt})]

RECURSIVE __handle_changed_spte(_, _, _, _, _, _)
RECURSIVE handle_removed_children(_, _, _, _, _, _)
RECURSIVE handle_removed_children1(_, _, _, _, _, _, _)
RECURSIVE handle_removed_pt(_, _, _, _, _)
RECURSIVE __handle_changed_spte1(_, _, _, _, _, _)

\* handle_removed_children1 with the entry read (line 245) after it is
\* cleared (line 246): handle_changed_spte is told of no change.
handle_removed_children1_read_late(m, as_id, gfn, pt, level, i, old_child_spte) ==
    handle_removed_children(
        __handle_changed_spte(
            Emit([m EXCEPT !.spt[pt][i] = SPTE_ZERO],
                 [ev |-> "write", pt |-> pt, idx |-> i,
                  old |-> READ_ONCE(m, [pt |-> pt, idx |-> i]), new |-> SPTE_ZERO]),
            as_id, gfn + i * KVM_PAGES_PER_HPAGE(level - 1),
            SPTE_ZERO, SPTE_ZERO, level - 1),
        as_id, gfn, pt, level, i + 1)

\* Lines 244-248 for entry i, its old value read.
handle_removed_children1(m, as_id, gfn, pt, level, i, old_child_spte) ==
    handle_removed_children(
        __handle_changed_spte(
            Emit([m EXCEPT !.spt[pt][i] = SPTE_ZERO],
                 [ev |-> "write", pt |-> pt, idx |-> i,
                  old |-> READ_ONCE(m, [pt |-> pt, idx |-> i]), new |-> SPTE_ZERO]),
            as_id, gfn + i * KVM_PAGES_PER_HPAGE(level - 1),
            old_child_spte, SPTE_ZERO, level - 1),
        as_id, gfn, pt, level, i + 1)

\* The for loop of lines 243-249: entry i of the child table `pt` and on.
handle_removed_children(m, as_id, gfn, pt, level, i) ==
    IF i = PT64_ENT_PER_PAGE THEN m
    ELSE handle_removed_children1(m, as_id, gfn, pt, level, i,
                                  READ_ONCE(m, [pt |-> pt, idx |-> i]))

\* handle_removed_pt with the flush request of lines 251-252 forgotten.
handle_removed_pt_no_flush(m, as_id, gfn, pt, level) ==
    free_page(
        Emit(handle_removed_children([m EXCEPT !.pages = @ \ {pt}],
                                     as_id, gfn, pt, level, 0),
             [ev |-> "free_page", pt |-> pt]),
        pt)

\* handle_removed_pt with the free of lines 254-255 forgotten.
handle_removed_pt_no_free(m, as_id, gfn, pt, level) ==
    Emit(handle_removed_children([m EXCEPT !.pages = @ \ {pt}],
                                 as_id, gfn, pt, level, 0),
         [ev |-> "flush", gfn |-> gfn, pages |-> KVM_PAGES_PER_HPAGE(level)])

\* handle_removed_pt with the free of lines 254-255 moved before the flush
\* request of lines 251-252.
handle_removed_pt_free_first(m, as_id, gfn, pt, level) ==
    Emit(free_page(
             Emit(handle_removed_children([m EXCEPT !.pages = @ \ {pt}],
                                          as_id, gfn, pt, level, 0),
                  [ev |-> "free_page", pt |-> pt]),
             pt),
         [ev |-> "flush", gfn |-> gfn, pages |-> KVM_PAGES_PER_HPAGE(level)])

\* Lines 238-255: the child table `pt` of a removed entry is unlinked, its
\* entries are handled, its range is flushed and it is freed.
handle_removed_pt(m, as_id, gfn, pt, level) ==
    free_page(
        Emit(Emit(handle_removed_children([m EXCEPT !.pages = @ \ {pt}],
                                          as_id, gfn, pt, level, 0),
                  [ev |-> "flush", gfn |-> gfn, pages |-> KVM_PAGES_PER_HPAGE(level)]),
             [ev |-> "free_page", pt |-> pt]),
        pt)

\* handle_dirty with the test of the dirty bit of the old value forgotten.
handle_dirty_any_leaf(m, was_leaf, pfn_changed, old_spte, new_spte) ==
    IF was_leaf /\ (~is_dirty_spte(new_spte) \/ pfn_changed)
    THEN Emit(m, [ev |-> "kvm_set_pfn_dirty", pfn |-> spte_to_pfn(old_spte)])
    ELSE m

\* handle_dirty reporting the frame of the new value.
handle_dirty_new_pfn(m, was_leaf, pfn_changed, old_spte, new_spte) ==
    IF was_leaf /\ is_dirty_spte(old_spte) /\ (~is_dirty_spte(new_spte) \/ pfn_changed)
    THEN Emit(m, [ev |-> "kvm_set_pfn_dirty", pfn |-> spte_to_pfn(new_spte)])
    ELSE m

\* Lines 229-231.
handle_dirty(m, was_leaf, pfn_changed, old_spte, new_spte) ==
    IF was_leaf /\ is_dirty_spte(old_spte) /\ (~is_dirty_spte(new_spte) \/ pfn_changed)
    THEN Emit(m, [ev |-> "kvm_set_pfn_dirty", pfn |-> spte_to_pfn(old_spte)])
    ELSE m

\* __handle_changed_spte1 asking for a flush of the entry when a value that
\* is not present replaces another one (lines 212-226).
__handle_changed_spte1_flush_nonpresent(m, as_id, gfn, old_spte, new_spte, level) ==
    LET was_present == is_shadow_present_pte(old_spte)
        is_present == is_shadow_present_pte(new_spte)
        was_leaf == was_present /\ is_last_spte(old_spte, level)
        pfn_changed == spte_to_pfn(old_spte) # spte_to_pfn(new_spte)
    IN IF old_spte = new_spte THEN m
       ELSE IF ~was_present /\ ~is_present
       THEN Emit(m, [ev |-> "flush", gfn |-> gfn, pages |-> KVM_PAGES_PER_HPAGE(level)])
       ELSE IF was_present /\ ~was_leaf /\ (pfn_changed \/ ~is_present)
       THEN handle_removed_pt(
                handle_dirty(m, was_leaf, pfn_changed, old_spte, new_spte),
                as_id, gfn, spte_to_child_pt(old_spte, level), level)
       ELSE handle_dirty(m, was_leaf, pfn_changed, old_spte, new_spte)

\* Lines 204-256: what follows the check of line 190.
__handle_changed_spte1(m, as_id, gfn, old_spte, new_spte, level) ==
    LET was_present == is_shadow_present_pte(old_spte)
        is_present == is_shadow_present_pte(new_spte)
        was_leaf == was_present /\ is_last_spte(old_spte, level)
        pfn_changed == spte_to_pfn(old_spte) # spte_to_pfn(new_spte)
    IN IF old_spte = new_spte THEN m
       ELSE IF ~was_present /\ ~is_present
       THEN IF ~is_mmio_spte(old_spte) /\ ~is_mmio_spte(new_spte)
            THEN Emit(m, [ev |-> "WARN"])
            ELSE m
       ELSE IF was_present /\ ~was_leaf /\ (pfn_changed \/ ~is_present)
       THEN handle_removed_pt(
                handle_dirty(m, was_leaf, pfn_changed, old_spte, new_spte),
                as_id, gfn, spte_to_child_pt(old_spte, level), level)
       ELSE handle_dirty(m, was_leaf, pfn_changed, old_spte, new_spte)

\* __handle_changed_spte without the check of lines 190-202.
__handle_changed_spte_unchecked(m, as_id, gfn, old_spte, new_spte, level) ==
    __handle_changed_spte1(
        Emit(m, [ev |-> "handle_changed_spte", as_id |-> as_id, gfn |-> gfn,
                 old |-> old_spte, new |-> new_spte, level |-> level]),
        as_id, gfn, old_spte, new_spte, level)

__handle_changed_spte(m, as_id, gfn, old_spte, new_spte, level) ==
    LET was_leaf == is_shadow_present_pte(old_spte) /\ is_last_spte(old_spte, level)
        is_leaf == is_shadow_present_pte(new_spte) /\ is_last_spte(new_spte, level)
        pfn_changed == spte_to_pfn(old_spte) # spte_to_pfn(new_spte)
        called == Emit(m, [ev |-> "handle_changed_spte", as_id |-> as_id, gfn |-> gfn,
                           old |-> old_spte, new |-> new_spte, level |-> level])
    IN IF was_leaf /\ is_leaf /\ pfn_changed
       THEN [Emit(called, [ev |-> "BUG"]) EXCEPT !.bug = TRUE]
       ELSE __handle_changed_spte1(called, as_id, gfn, old_spte, new_spte, level)

handle_changed_spte(m, as_id, gfn, old_spte, new_spte, level) ==
    __handle_changed_spte(m, as_id, gfn, old_spte, new_spte, level)

\* tdp_mmu_set_spte telling handle_changed_spte the guest frame the walk is
\* for, not the first one the entry maps.
tdp_mmu_set_spte_goal_gfn(m, iter, new_spte) ==
    handle_changed_spte(
        Emit([m EXCEPT !.spt[iter.sptep.pt][iter.sptep.idx] = new_spte],
             [ev |-> "write", pt |-> iter.sptep.pt, idx |-> iter.sptep.idx,
              old |-> READ_ONCE(m, iter.sptep), new |-> new_spte]),
        kvm_mmu_page_as_id(m, iter.pt_path[iter.root_level]),
        iter.goal_gfn, iter.old_spte, new_spte, iter.level)

\* Lines 265-276.  The write event keeps the value the store of line 272
\* overwrites; handle_changed_spte is told iter->old_spte.
tdp_mmu_set_spte(m, iter, new_spte) ==
    handle_changed_spte(
        Emit([m EXCEPT !.spt[iter.sptep.pt][iter.sptep.idx] = new_spte],
             [ev |-> "write", pt |-> iter.sptep.pt, idx |-> iter.sptep.idx,
              old |-> READ_ONCE(m, iter.sptep), new |-> new_spte]),
        kvm_mmu_page_as_id(m, iter.pt_path[iter.root_level]),
        iter.gfn, iter.old_spte, new_spte, iter.level)

\* ------------------------------------------------------------- pages and roots
\* role.word: the vCPU's base role (here its SMM flag) with the level.
page_role_for_level(smm, level) == [smm |-> smm, level |-> level]

\* alloc_tdp_mmu_page1 handing out a page that was not cleared: its last
\* entry holds what a former user left.
alloc_tdp_mmu_page1_not_cleared(m, smm, gfn, level, new) ==
    IF new = 0
    THEN [sp |-> 0,
          m |-> [Emit(Emit(m, [ev |-> "no_page"]), [ev |-> "NULL dereference"])
                    EXCEPT !.bug = TRUE]]
    ELSE [sp |-> new,
          m |-> [m EXCEPT !.spt = Extend(@, new,
                                         [EmptyPt EXCEPT ![PT64_ENT_PER_PAGE - 1] =
                                             make_spte(RootLevel, 1, FALSE, TRUE,
                                                       FALSE).spte]),
                          !.sp = Extend(@, new,
                                        [role |-> page_role_for_level(smm, level),
                                         gfn |-> gfn, tdp_mmu_page |-> TRUE,
                                         root_count |-> 0]),
                          !.nobjs = @ - 1]]

\* Lines 92-101, the allocator having answered `new`.  Nothing tests `new`:
\* with no page, line 93 stores through a null pointer and the kernel stops
\* the thread.
alloc_tdp_mmu_page1(m, smm, gfn, level, new) ==
    IF new = 0
    THEN [sp |-> 0,
          m |-> [Emit(Emit(m, [ev |-> "no_page"]), [ev |-> "NULL dereference"])
                    EXCEPT !.bug = TRUE]]
    ELSE [sp |-> new,
          m |-> [m EXCEPT !.spt = Extend(@, new, EmptyPt),
                          !.sp = Extend(@, new,
                                        [role |-> page_role_for_level(smm, level),
                                         gfn |-> gfn, tdp_mmu_page |-> TRUE,
                                         root_count |-> 0]),
                          !.nobjs = @ - 1]]

\* Answers [m, sp]: the memory with the new page in it, and the page.
alloc_tdp_mmu_page(m, smm, gfn, level) ==
    alloc_tdp_mmu_page1(m, smm, gfn, level, CacheAlloc(m))

kvm_mmu_get_root(m, root) == [m EXCEPT !.sp[root].root_count = @ + 1]

\* Drops a reference; whether it was the last one is for the caller to ask.
kvm_mmu_put_root(m, root) == [m EXCEPT !.sp[root].root_count = @ - 1]

is_tdp_mmu_root(m, hpa) == m.sp[hpa].tdp_mmu_page /\ m.sp[hpa].root_count # 0

\* The scan with the comparison of the roles of line 116 lost.
FindRoot_any_role(m, roots, role) ==
    IF roots = <<>> THEN 0 ELSE roots[1]

\* The scan of get_tdp_mmu_vcpu_root: the first root of the list with this
\* role, 0 when there is none.
FindRoot(m, roots, role) ==
    LET hits == {i \in 1..Len(roots) : m.sp[roots[i]].role = role}
    IN IF hits = {} THEN 0
       ELSE roots[CHOOSE i \in hits : \A j \in hits : i <= j]

list_del(list, x) == SelectSeq(list, LAMBDA y : y # x)

list_add(x, list) == <<x>> \o list

\* ------------------------------------------------------------- zap_gfn_range
\* tdp_mmu_iter_flush_cond_resched with the flush of line 292 forgotten.
tdp_mmu_iter_cond_resched_no_flush(m, iter, resched) ==
    IF iter.gfn \in resched
    THEN [m |-> Emit(m, [ev |-> "unlock"]), yields |-> TRUE, ret |-> FALSE]
    ELSE [m |-> m, yields |-> FALSE, ret |-> TRUE]

\* need_resched() || spin_needbreak(): `resched` holds the gfns at which
\* the scheduler or another lock waiter asks for the CPU.
\* Answers [m, yields, ret]; when it yields the caller stops inside
\* cond_resched_lock, having released the lock.
\* tdp_mmu_iter_flush_cond_resched with lines 292 and 293 exchanged: the
\* lock is released before the flush is requested.
tdp_mmu_iter_cond_resched_unlock_first(m, iter, resched) ==
    IF iter.gfn \in resched
    THEN [m |-> Emit(Emit(m, [ev |-> "unlock"]), [ev |-> "flush_all"]),
          yields |-> TRUE, ret |-> FALSE]
    ELSE [m |-> m, yields |-> FALSE, ret |-> TRUE]

tdp_mmu_iter_flush_cond_resched(m, iter, resched) ==
    IF iter.gfn \in resched
    THEN [m |-> Emit(Emit(m, [ev |-> "flush_all"]), [ev |-> "unlock"]),
          yields |-> TRUE, ret |-> FALSE]
    ELSE [m |-> m, yields |-> FALSE, ret |-> TRUE]

\* zap_skips without the test of lines 327-330: every present entry is zapped.
zap_skips_not_present(iter, start, end) ==
    ~is_shadow_present_pte(iter.old_spte)

\* zap_skips with the range test of lines 327-328 lost: no page table is
\* zapped as a whole.
zap_skips_page_tables(iter, start, end) ==
    \/ ~is_shadow_present_pte(iter.old_spte)
    \/ ~is_last_spte(iter.old_spte, iter.level)

\* zap_skips with the test of the end of the range (line 328) lost.
zap_skips_before_start(iter, start, end) ==
    \/ ~is_shadow_present_pte(iter.old_spte)
    \/ /\ iter.gfn < start
       /\ ~is_last_spte(iter.old_spte, iter.level)

\* zap_skips with the test for a page table (lines 329-330) lost: every
\* entry that reaches outside [start, end) is left alone.
zap_skips_outside(iter, start, end) ==
    \/ ~is_shadow_present_pte(iter.old_spte)
    \/ iter.gfn < start
    \/ iter.gfn + KVM_PAGES_PER_HPAGE(iter.level) > end

\* Lines 319-330: the entries the loop leaves alone: those not present, and
\* those that point to a page table and reach outside [start, end).
zap_skips(iter, start, end) ==
    \/ ~is_shadow_present_pte(iter.old_spte)
    \/ /\ (iter.gfn < start \/ iter.gfn + KVM_PAGES_PER_HPAGE(iter.level) > end)
       /\ ~is_last_spte(iter.old_spte, iter.level)

RECURSIVE zap_loop(_, _, _, _, _, _, _)
RECURSIVE zap_loop1(_, _, _, _, _, _)
RECURSIVE zap_loop2(_, _, _, _, _, _)

\* Line 335 done: the loop stops in the yield or goes on.
zap_loop2(cond, iter, start, end, can_yield, resched) ==
    IF cond.yields
    THEN [m |-> cond.m, iter |-> iter, flush_needed |-> cond.ret, done |-> FALSE]
    ELSE zap_loop(cond.m, tdp_iter_next(cond.m, iter), start, end, can_yield,
                  resched, cond.ret)

\* Line 332 done: lines 334-337.
zap_loop1(m, iter, start, end, can_yield, resched) ==
    IF can_yield
    THEN zap_loop2(tdp_mmu_iter_flush_cond_resched(m, iter, resched), iter,
                   start, end, can_yield, resched)
    ELSE zap_loop(m, tdp_iter_next(m, iter), start, end, can_yield, resched, TRUE)

\* The for loop of zap_gfn_range from its condition on, up to its end or to
\* the next yield.  Answers [m, iter, flush_needed, done].
zap_loop(m, iter, start, end, can_yield, resched, flush_needed) ==
    IF ~tdp_iter_continues(iter, end)
    THEN [m |-> m, iter |-> iter, flush_needed |-> flush_needed, done |-> TRUE]
    ELSE IF zap_skips(iter, start, end)
    THEN zap_loop(m, tdp_iter_next(m, iter), start, end, can_yield, resched,
                  flush_needed)
    ELSE zap_loop1(tdp_mmu_set_spte(m, iter, SPTE_ZERO), iter, start, end,
                   can_yield, resched)

\* zap_gfn_range with flush_needed initialised to true.
zap_gfn_range_flush_set(m, root, start, end, can_yield, resched) ==
    zap_loop(m, tdp_iter_start(m, root, m.sp[root].role.level, PG_LEVEL_4K, start),
             start, end, can_yield, resched, TRUE)

\* zap_gfn_range from its entry.
zap_gfn_range(m, root, start, end, can_yield, resched) ==
    zap_loop(m, tdp_iter_start(m, root, m.sp[root].role.level, PG_LEVEL_4K, start),
             start, end, can_yield, resched, FALSE)

\* zap_gfn_range_resume1 with flush_needed left true by the yield.
zap_gfn_range_resume1_flush_kept(m, iter, start, end, resched) ==
    zap_loop(m, tdp_iter_next(m, tdp_iter_refresh_walk(m, iter)), start, end, TRUE,
             resched, TRUE)

zap_gfn_range_resume1(m, iter, start, end, resched) ==
    zap_loop(m, tdp_iter_next(m, tdp_iter_refresh_walk(m, iter)), start, end, TRUE,
             resched, FALSE)

\* zap_gfn_range from the return of cond_resched_lock, the lock held again.
zap_gfn_range_resume(m, iter, start, end, resched) ==
    zap_gfn_range_resume1(Emit(Emit(m, [ev |-> "lock"]), [ev |-> "refresh_walk"]),
                          iter, start, end, resched)

\* list_for_each_entry: the entry after x, 0 at the end of the list.
list_next(list, x) ==
    LET at == {i \in 1..Len(list) : list[i] = x}
    IN IF at = {} THEN 0
       ELSE IF (CHOOSE i \in at : TRUE) = Len(list) THEN 0
       ELSE list[(CHOOSE i \in at : TRUE) + 1]

list_first(list) == IF list = <<>> THEN 0 ELSE list[1]

RECURSIVE kvm_tdp_mmu_zap_gfn_range_roots(_, _, _, _, _, _, _)

\* Lines 360-363, zap_gfn_range having answered `zapped` for `root`: it
\* yielded, or it is done and the loop goes to the next root.
\* Answers [m, done, root, iter, flush].
kvm_tdp_mmu_zap_gfn_range_zapped(zapped, roots, root, start, end, resched, flush) ==
    IF ~zapped.done
    THEN [m |-> zapped.m, done |-> FALSE, root |-> root, iter |-> zapped.iter,
          flush |-> flush]
    ELSE kvm_tdp_mmu_zap_gfn_range_roots(kvm_mmu_put_root(zapped.m, root), roots,
                                         list_next(roots, root), start, end,
                                         resched, flush \/ zapped.flush_needed)

\* The loop with the reference of line 358 not taken.
kvm_tdp_mmu_zap_gfn_range_roots_unpinned(m, roots, root, start, end, resched, flush) ==
    IF root = 0
    THEN [m |-> m, done |-> TRUE, root |-> 0, iter |-> <<>>, flush |-> flush]
    ELSE kvm_tdp_mmu_zap_gfn_range_zapped(
             zap_gfn_range(m, root, start, end, TRUE, resched),
             roots, root, start, end, resched, flush)

\* Lines 353-365: the loop from `root` on, 0 past the last root.
kvm_tdp_mmu_zap_gfn_range_roots(m, roots, root, start, end, resched, flush) ==
    IF root = 0
    THEN [m |-> m, done |-> TRUE, root |-> 0, iter |-> <<>>, flush |-> flush]
    ELSE kvm_tdp_mmu_zap_gfn_range_zapped(
             zap_gfn_range(kvm_mmu_get_root(m, root), root, start, end, TRUE,
                           resched),
             roots, root, start, end, resched, flush)

\* kvm_tdp_mmu_zap_gfn_range from its entry up to its return or its first
\* yield.
kvm_tdp_mmu_zap_gfn_range(m, roots, start, end, resched) ==
    kvm_tdp_mmu_zap_gfn_range_roots(m, roots, list_first(roots), start, end,
                                    resched, FALSE)

\* kvm_tdp_mmu_zap_gfn_range from the return of cond_resched_lock in the zap
\* of `root` up to its return or its next yield.
kvm_tdp_mmu_zap_gfn_range_resume(m, roots, root, iter, start, end, resched, flush) ==
    kvm_tdp_mmu_zap_gfn_range_zapped(
        zap_gfn_range_resume(m, iter, start, end, resched),
        roots, root, start, end, resched, flush)

\* ------------------------------------------------------------- kvm_tdp_mmu_map
INVALID_PAGE == 0

\* tdp_mmu_map_handle_target_level2 answering a value that is no outcome of
\* a fault when nothing asks for emulation.
tdp_mmu_map_handle_target_level2_invalid(m, write, new_spte, make_spte_ret, ret) ==
    IF m.bug THEN [m |-> m, ret |-> -1]
    ELSE [m |-> IF make_spte_ret = SET_SPTE_WRITE_PROTECTED_PT
                THEN Emit(m, [ev |-> "KVM_REQ_TLB_FLUSH_CURRENT"])
                ELSE m,
          ret |-> IF is_mmio_spte(new_spte) THEN RET_PF_EMULATE
                  ELSE IF make_spte_ret = SET_SPTE_WRITE_PROTECTED_PT /\ write
                  THEN RET_PF_EMULATE
                  ELSE RET_PF_INVALID]

\* tdp_mmu_map_handle_target_level2 without the test of `write` (line 411).
tdp_mmu_map_handle_target_level2_any_access(m, write, new_spte, make_spte_ret, ret) ==
    IF m.bug THEN [m |-> m, ret |-> -1]
    ELSE [m |-> IF make_spte_ret = SET_SPTE_WRITE_PROTECTED_PT
                THEN Emit(m, [ev |-> "KVM_REQ_TLB_FLUSH_CURRENT"])
                ELSE m,
          ret |-> IF is_mmio_spte(new_spte) THEN RET_PF_EMULATE
                  ELSE IF make_spte_ret = SET_SPTE_WRITE_PROTECTED_PT
                  THEN RET_PF_EMULATE
                  ELSE ret]

\* Lines 405-424, the new SPTE written or found in place.  Answers [m, ret].
tdp_mmu_map_handle_target_level2(m, write, new_spte, make_spte_ret, ret) ==
    IF m.bug THEN [m |-> m, ret |-> -1]
    ELSE [m |-> IF make_spte_ret = SET_SPTE_WRITE_PROTECTED_PT
                THEN Emit(m, [ev |-> "KVM_REQ_TLB_FLUSH_CURRENT"])
                ELSE m,
          ret |-> IF is_mmio_spte(new_spte) THEN RET_PF_EMULATE
                  ELSE IF make_spte_ret = SET_SPTE_WRITE_PROTECTED_PT /\ write
                  THEN RET_PF_EMULATE
                  ELSE ret]

\* Lines 400-403 with the comparison taken for "the entry is present".
tdp_mmu_map_handle_target_level1_present(m, write, iter, made) ==
    IF is_shadow_present_pte(iter.old_spte)
    THEN tdp_mmu_map_handle_target_level2(m, write, made.spte, made.ret,
                                          RET_PF_SPURIOUS)
    ELSE tdp_mmu_map_handle_target_level2(tdp_mmu_set_spte(m, iter, made.spte),
                                          write, made.spte, made.ret, 0)

\* Lines 400-403, the new SPTE made.
tdp_mmu_map_handle_target_level1(m, write, iter, made) ==
    IF made.spte = iter.old_spte
    THEN tdp_mmu_map_handle_target_level2(m, write, made.spte, made.ret,
                                          RET_PF_SPURIOUS)
    ELSE tdp_mmu_map_handle_target_level2(tdp_mmu_set_spte(m, iter, made.spte),
                                          write, made.spte, made.ret, 0)

tdp_mmu_map_handle_target_level(m, write, map_writable, iter, pfn, prefault, wrprot) ==
    tdp_mmu_map_handle_target_level1(m, write, iter,
        IF is_noslot_pfn(pfn)
        THEN [ret |-> 0, spte |-> make_mmio_spte(iter.gfn)]
        ELSE make_spte(iter.level, pfn, prefault, map_writable, wrprot))

\* Lines 488-495, the page allocated: the new page table is linked; nothing
\* more when the thread was stopped in alloc_tdp_mmu_page.
tdp_mmu_map_link1(alloc, iter) ==
    IF alloc.m.bug THEN alloc.m
    ELSE tdp_mmu_set_spte([alloc.m EXCEPT !.pages = @ \cup {alloc.sp}], iter,
                          make_nonleaf_spte(alloc.sp, FALSE))

tdp_mmu_map_link(m, iter, smm) ==
    IF ~is_shadow_present_pte(iter.old_spte)
    THEN tdp_mmu_map_link1(alloc_tdp_mmu_page(m, smm, iter.gfn, iter.level), iter)
    ELSE m

\* Lines 473-483: the large page is zapped, its range flushed, the entry read again.
tdp_mmu_map_zap_large1(m, iter) ==
    [m |-> m, iter |-> [iter EXCEPT !.old_spte = READ_ONCE(m, iter.sptep)]]

\* tdp_mmu_map_zap_large with the flush of lines 475-476 forgotten.
tdp_mmu_map_zap_large_no_flush(m, iter) ==
    IF is_shadow_present_pte(iter.old_spte) /\ is_large_pte(iter.old_spte)
    THEN tdp_mmu_map_zap_large1(tdp_mmu_set_spte(m, iter, SPTE_ZERO), iter)
    ELSE [m |-> m, iter |-> iter]

tdp_mmu_map_zap_large(m, iter) ==
    IF is_shadow_present_pte(iter.old_spte) /\ is_large_pte(iter.old_spte)
    THEN tdp_mmu_map_zap_large1(
             Emit(tdp_mmu_set_spte(m, iter, SPTE_ZERO),
                  [ev |-> "flush", gfn |-> iter.gfn,
                   pages |-> KVM_PAGES_PER_HPAGE(iter.level)]),
             iter)
    ELSE [m |-> m, iter |-> iter]

tdp_mmu_map_step1(z, smm) ==
    [m |-> tdp_mmu_map_link(z.m, z.iter, smm), iter |-> z.iter]

\* The body of the walk at one entry above the target level.  Answers [m, iter].
tdp_mmu_map_step(m, iter, smm) ==
    tdp_mmu_map_step1(tdp_mmu_map_zap_large(m, iter), smm)

\* tdp_mmu_for_each_pte of kvm_tdp_mmu_map, to its break or its end.
RECURSIVE tdp_mmu_map_walk(_, _, _, _, _)
RECURSIVE tdp_mmu_map_walk1(_, _, _, _)

tdp_mmu_map_walk1(step, gfn, level, smm) ==
    tdp_mmu_map_walk(step.m, tdp_iter_next(step.m, step.iter), gfn, level, smm)

\* The loop body is entered for the entry the iterator stands on.
tdp_mmu_map_visit(m, iter) ==
    Emit(m, [ev |-> "visit", pt |-> iter.sptep.pt, idx |-> iter.sptep.idx,
             level |-> iter.level, gfn |-> iter.gfn])

tdp_mmu_map_walk(m, iter, gfn, level, smm) ==
    IF m.bug \/ ~tdp_iter_continues(iter, gfn + 1)
    THEN [m |-> m, iter |-> iter]
    ELSE IF iter.level = level
    THEN [m |-> tdp_mmu_map_visit(m, iter), iter |-> iter]
    ELSE tdp_mmu_map_walk1(tdp_mmu_map_step(tdp_mmu_map_visit(m, iter), iter, smm),
                           gfn, level, smm)

\* Lines 499-505, the walk done.
kvm_tdp_mmu_map1(walk, write, map_writable, level, pfn, prefault, wrprot) ==
    IF walk.m.bug THEN [m |-> walk.m, ret |-> -1]
    ELSE IF walk.iter.level # level
    THEN [m |-> Emit(walk.m, [ev |-> "WARN"]), ret |-> RET_PF_RETRY]
    ELSE tdp_mmu_map_handle_target_level(walk.m, write, map_writable, walk.iter,
                                         pfn, prefault, wrprot)

\* kvm_tdp_mmu_map without the test of line 451.
kvm_tdp_mmu_map_any_page(m, root_hpa, gfn, write, map_writable, level, pfn, prefault, wrprot) ==
    IF root_hpa = INVALID_PAGE
    THEN [m |-> Emit(m, [ev |-> "WARN"]), ret |-> RET_PF_RETRY]
    ELSE kvm_tdp_mmu_map1(
             tdp_mmu_map_walk(m,
                 tdp_iter_start(m, root_hpa, m.sp[root_hpa].role.level, PG_LEVEL_4K,
                                gfn),
                 gfn, level, m.sp[root_hpa].role.smm),
             write, map_writable, level, pfn, prefault, wrprot)

\* `level` and `pfn` are what kvm_mmu_hugepage_adjust made of max_level and
\* the pfn; root_hpa is vcpu->arch.mmu->root_hpa.  Answers [m, ret].
kvm_tdp_mmu_map(m, root_hpa, gfn, write, map_writable, level, pfn, prefault, wrprot) ==
    IF root_hpa = INVALID_PAGE
    THEN [m |-> Emit(m, [ev |-> "WARN"]), ret |-> RET_PF_RETRY]
    ELSE IF ~is_tdp_mmu_root(m, root_hpa)
    THEN [m |-> Emit(m, [ev |-> "WARN"]), ret |-> RET_PF_RETRY]
    ELSE kvm_tdp_mmu_map1(
             tdp_mmu_map_walk(m,
                 tdp_iter_start(m, root_hpa, m.sp[root_hpa].role.level, PG_LEVEL_4K,
                                gfn),
                 gfn, level, m.sp[root_hpa].role.smm),
             write, map_writable, level, pfn, prefault, wrprot)

\* ------------------------------------------------------------- root teardown
\* Lines 66-71, the zap done: its return value is not used.
kvm_tdp_mmu_free_root1(zap, roots, root) ==
    [roots |-> list_del(roots, root),
     m |-> free_page(Emit(zap.m, [ev |-> "free_root", pt |-> root]), root)]

\* Answers [m, roots].
kvm_tdp_mmu_free_root(m, roots, root) ==
    kvm_tdp_mmu_free_root1(
        zap_gfn_range(IF m.sp[root].root_count # 0 THEN Emit(m, [ev |-> "WARN"])
                      ELSE m,
                      root, 0, max_gfn, FALSE, {}),
        roots, root)

mmu_free_root_page1(m, roots, root) ==
    IF m.sp[root].root_count = 0 /\ m.sp[root].tdp_mmu_page
    THEN kvm_tdp_mmu_free_root(m, roots, root)
    ELSE [m |-> m, roots |-> roots]

\* mmu_free_root_page of kvm_mmu_free_roots: the vCPU gives up its root, and
\* the one who drops the last reference frees it.
mmu_free_root_page(m, roots, root) ==
    mmu_free_root_page1(kvm_mmu_put_root(m, root), roots, root)

\* The loop over the roots of kvm_tdp_mmu_handle_hva_range with the handler
\* zap_gfn_range_hva_wrapper, for one memslot that holds [start, end).
\* Answers [m, ret].
RECURSIVE kvm_tdp_mmu_zap_hva_roots(_, _, _, _, _, _)
RECURSIVE kvm_tdp_mmu_zap_hva_roots1(_, _, _, _, _, _)

kvm_tdp_mmu_zap_hva_roots1(zap, roots, i, start, end, ret) ==
    kvm_tdp_mmu_zap_hva_roots(kvm_mmu_put_root(zap.m, roots[i]), roots, i + 1,
                              start, end, ret \/ zap.flush_needed)

kvm_tdp_mmu_zap_hva_roots(m, roots, i, start, end, ret) ==
    IF i > Len(roots) THEN [m |-> m, ret |-> ret]
    ELSE kvm_tdp_mmu_zap_hva_roots1(
             zap_gfn_range(kvm_mmu_get_root(m, roots[i]), roots[i], start, end,
                           FALSE, {}),
             roots, i, start, end, ret)

kvm_tdp_mmu_zap_hva_range(m, roots, start, end) ==
    kvm_tdp_mmu_zap_hva_roots(m, roots, 1, start, end, FALSE)

\* ------------------------------------------------------------- state
VARIABLES
    spt,            \* the entries of every allocated page-table page
    sp,             \* its struct kvm_mmu_page
    tdp_mmu_pages,  \* kvm->arch.tdp_mmu_pages
    tdp_mmu_roots,  \* kvm->arch.tdp_mmu_roots, head first
    root_hpa,       \* vcpu->arch.mmu->root_hpa of every vCPU
    mmu_role,       \* the SMM flag of the vCPU's base role
    mmu_lock,       \* the holders of kvm->mmu_lock
    pc,             \* where every vCPU is in get_tdp_mmu_vcpu_root
    log,            \* what the last handler did, in order
    bug,            \* BUG() was reached: the host is down
    last,           \* the last call: its arguments, its return value, and
                    \* whether the call before it was the same call, with
                    \* what that one returned and whether it wrote an entry
    pre,            \* the page tables and the roots as the last call found
                    \* them
    zapper          \* the thread in kvm_tdp_mmu_zap_gfn_range: idle, or yielded
                    \* in cond_resched_lock with its loop variables and with
                    \* what it did so far

vars == <<spt, sp, tdp_mmu_pages, tdp_mmu_roots, root_hpa, mmu_role, mmu_lock, pc,
          log, bug, last, pre, zapper>>

\* The memory a handler starts on.
\* nobjs: the pages the allocator has for the handler, more than any
\* handler asks for after mmu_topup_memory_caches.
Mem ==
    [spt |-> spt, sp |-> sp, pages |-> tdp_mmu_pages, log |-> <<>>, bug |-> FALSE,
     nobjs |-> RootLevel]

\* What the event i of the log l, a handle_changed_spte call, does itself
\* before it looks at a child table: the abort or the dirty notification.
InvocationHead(l, i) ==
    LET others == {k \in (i + 1)..Len(l) :
                      l[k].ev \notin {"BUG", "WARN", "kvm_set_pfn_dirty"}}
        stop == IF others = {} THEN Len(l) + 1
                ELSE CHOOSE k \in others : \A j \in others : k <= j
        IsEffect(e) == e.ev # "WARN"
    IN SelectSeq(SubSeq(l, i + 1, stop - 1), IsEffect)

\* What it does itself after the entries of the child table are handled: the
\* flush request and the free of the child table.
InvocationTail(l, i) ==
    LET frees == {f \in (i + 1)..Len(l) :
                     /\ l[f].ev = "free_page"
                     /\ spte_to_child_pt(l[i].old, l[i].level) # 0
                     /\ l[f].pt = spte_to_child_pt(l[i].old, l[i].level)}
        f == CHOOSE f \in frees : TRUE
    IN IF frees = {} THEN <<>>
       ELSE IF l[f - 1].ev = "flush" THEN <<l[f - 1], l[f]>>
       ELSE <<l[f]>>

\* The handle_changed_spte calls of the log l: the old value, the new value
\* and the level each was given, with what it did itself.
Invocations(l) ==
    {[old |-> l[i].old, new |-> l[i].new, level |-> l[i].level,
      effects |-> InvocationHead(l, i) \o InvocationTail(l, i)] :
        i \in {k \in 1..Len(l) : l[k].ev = "handle_changed_spte"}}

\* last.seen: the invocations of the calls before the last one, kept when
\* last.track is set.
NoCall ==
    [call |-> <<"none">>, ret |-> 0, again |-> FALSE, prev_ret |-> 0,
     prev_wrote |-> FALSE, track |-> FALSE, seen |-> {}]

ZapperIdle == [pc |-> "idle"]

\* kvm_mmu_init_tdp_mmu: both lists empty, no vCPU has a root.
Init ==
    /\ spt = <<>>
    /\ sp = <<>>
    /\ tdp_mmu_pages = {}
    /\ tdp_mmu_roots = <<>>
    /\ root_hpa = [v \in Vcpus |-> INVALID_PAGE]
    /\ mmu_role = [v \in Vcpus |-> FALSE]
    /\ mmu_lock = {}
    /\ pc = [v \in Vcpus |-> "idle"]
    /\ log = <<>>
    /\ bug = FALSE
    /\ last = NoCall
    /\ pre = [spt |-> <<>>, sp |-> <<>>, roots |-> <<>>]
    /\ zapper = ZapperIdle

Store(m) ==
    /\ spt' = m.spt
    /\ sp' = m.sp
    /\ tdp_mmu_pages' = m.pages
    /\ log' = m.log
    /\ bug' = m.bug

Called(call, ret) ==
    /\ last' = [call |-> call, ret |-> ret, again |-> (last.call = call),
                prev_ret |-> IF last.call = call THEN last.ret ELSE 0,
                prev_wrote |-> /\ last.call = call
                               /\ \E i \in 1..Len(log) : log[i].ev = "write",
                track |-> last.track,
                seen |-> IF last.track THEN last.seen \cup Invocations(log)
                         ELSE last.seen]
    /\ pre' = [spt |-> spt, sp |-> sp, roots |-> tdp_mmu_roots]

\* spin_lock that does not wait for the holder of the lock.
spin_lock_granted_at_once(lock) == TRUE

\* spin_lock(&kvm->mmu_lock) returns once no one else holds the lock.
spin_lock_granted(lock) == lock = {}

\* get_tdp_mmu_vcpu_root, line 112: the vCPU, in the mode `smm`, takes the lock.
RootLock(v, smm) ==
    /\ ~bug
    /\ pc[v] = "idle"
    /\ root_hpa[v] = INVALID_PAGE
    /\ spin_lock_granted(mmu_lock)
    /\ mmu_lock' = mmu_lock \cup {v}
    /\ mmu_role' = [mmu_role EXCEPT ![v] = smm]
    /\ pc' = [pc EXCEPT ![v] = "scan"]
    /\ UNCHANGED <<spt, sp, tdp_mmu_pages, tdp_mmu_roots, root_hpa, log, bug, last,
                   pre, zapper>>

\* Lines 115-121: the scan of the roots; a hit takes a reference and returns.
RootScan(v) ==
    /\ pc[v] = "scan"
    /\ \E root \in {FindRoot(Mem, tdp_mmu_roots,
                                page_role_for_level(mmu_role[v], RootLevel))} :
          IF root # 0
          THEN /\ Store(kvm_mmu_get_root(Mem, root))
               /\ mmu_lock' = mmu_lock \ {v}
               /\ root_hpa' = [root_hpa EXCEPT ![v] = root]
               /\ pc' = [pc EXCEPT ![v] = "idle"]
               /\ Called(<<"get_root", v, "hit">>, root)
          ELSE /\ pc' = [pc EXCEPT ![v] = "insert"]
               /\ UNCHANGED <<spt, sp, tdp_mmu_pages, log, bug, mmu_lock, root_hpa,
                              last, pre>>
    /\ UNCHANGED <<tdp_mmu_roots, mmu_role, zapper>>

\* Lines 123-130: no root has the role; a new one is made and listed.
RootInsert(v) ==
    /\ pc[v] = "insert"
    /\ \E alloc \in {alloc_tdp_mmu_page(Mem, mmu_role[v], 0, RootLevel)} :
          /\ Store([alloc.m EXCEPT !.sp[alloc.sp].root_count = 1])
          /\ tdp_mmu_roots' = list_add(alloc.sp, tdp_mmu_roots)
          /\ root_hpa' = [root_hpa EXCEPT ![v] = alloc.sp]
          /\ Called(<<"get_root", v, "miss">>, alloc.sp)
    /\ mmu_lock' = mmu_lock \ {v}
    /\ pc' = [pc EXCEPT ![v] = "idle"]
    /\ UNCHANGED <<mmu_role, zapper>>

\* Lines 123-130 when the allocator has no page for the new root.
RootInsertNoPage(v) ==
    /\ pc[v] = "insert"
    /\ \E alloc \in {alloc_tdp_mmu_page([Mem EXCEPT !.nobjs = 0], mmu_role[v], 0,
                                         RootLevel)} :
          /\ Store(alloc.m)
          /\ Called(<<"get_root", v, "no_page">>, alloc.sp)
    /\ UNCHANGED <<tdp_mmu_roots, root_hpa, mmu_role, mmu_lock, pc, zapper>>

\* kvm_mmu_free_roots, under the lock: the vCPU gives up its root.
PutRoot(v) ==
    /\ ~bug
    /\ pc[v] = "idle"
    /\ root_hpa[v] # INVALID_PAGE
    /\ spin_lock_granted(mmu_lock)
    /\ \E r \in {mmu_free_root_page(Mem, tdp_mmu_roots, root_hpa[v])} :
          /\ Store(r.m)
          /\ tdp_mmu_roots' = r.roots
          /\ Called(<<"put_root", v, root_hpa[v]>>, 0)
    /\ root_hpa' = [root_hpa EXCEPT ![v] = INVALID_PAGE]
    /\ UNCHANGED <<mmu_role, mmu_lock, pc, zapper>>

\* A page fault of vCPU v, under the lock, after mmu_topup_memory_caches has
\* filled the caches and kvm_mmu_hugepage_adjust has chosen level and pfn
\* (level 1 for a gfn no memslot holds).
Fault(v, gfn, level, pfn, map_writable, write, prefault, wrprot) ==
    /\ ~bug
    /\ pc[v] = "idle"
    /\ spin_lock_granted(mmu_lock)
    /\ is_noslot_pfn(pfn) => level = PG_LEVEL_4K
    /\ Cardinality(FreeIds(Mem)) >= RootLevel - 1
    /\ \E r \in {kvm_tdp_mmu_map(Mem, root_hpa[v], gfn, write, map_writable, level,
                                pfn, prefault, wrprot)} :
          /\ Store(r.m)
          /\ Called(<<"map", v, gfn, level, pfn, map_writable, write, prefault,
                      wrprot>>, r.ret)
    /\ UNCHANGED <<tdp_mmu_roots, root_hpa, mmu_role, mmu_lock, pc, zapper>>

\* A page fault of vCPU v that maps a small page while the allocator has
\* `nobjs` pages left, fewer than a walk can ask for.
FaultFewPages(v, gfn, pfn, nobjs) ==
    /\ ~bug
    /\ pc[v] = "idle"
    /\ spin_lock_granted(mmu_lock)
    /\ nobjs < RootLevel - 1
    /\ \E r \in {kvm_tdp_mmu_map([Mem EXCEPT !.nobjs = nobjs], root_hpa[v], gfn, TRUE,
                                TRUE, PG_LEVEL_4K, pfn, FALSE, FALSE)} :
          /\ Store(r.m)
          /\ Called(<<"map", v, gfn, PG_LEVEL_4K, pfn, TRUE, TRUE, FALSE, FALSE,
                      nobjs>>, r.ret)
    /\ UNCHANGED <<tdp_mmu_roots, root_hpa, mmu_role, mmu_lock, pc, zapper>>

\* kvm_tdp_mmu_map for a write to a small page, given as root_hpa a root of
\* the list that no one counts as a root any more.
FaultUncounted(v, root, gfn, pfn) ==
    /\ ~bug
    /\ pc[v] = "idle"
    /\ spin_lock_granted(mmu_lock)
    /\ zapper.pc = "idle"
    /\ \E i \in 1..Len(tdp_mmu_roots) : tdp_mmu_roots[i] = root
    /\ sp[root].root_count = 0
    /\ \E r \in {kvm_tdp_mmu_map(Mem, root, gfn, TRUE, TRUE, PG_LEVEL_4K, pfn, FALSE,
                                FALSE)} :
          /\ Store(r.m)
          /\ Called(<<"map", v, gfn, PG_LEVEL_4K, pfn, TRUE, TRUE, FALSE, FALSE, root>>,
                    r.ret)
    /\ UNCHANGED <<tdp_mmu_roots, root_hpa, mmu_role, mmu_lock, pc, zapper>>

\* An MMU notifier unmaps the guest frames [start, end), under the lock.
ZapHvaRange(start, end) ==
    /\ ~bug
    /\ spin_lock_granted(mmu_lock)
    /\ start < end
    /\ \E r \in {kvm_tdp_mmu_zap_hva_range(Mem, tdp_mmu_roots, start, end)} :
          /\ Store(r.m)
          /\ Called(<<"zap_hva_range", start, end>>, IF r.ret THEN 1 ELSE 0)
    /\ UNCHANGED <<tdp_mmu_roots, root_hpa, mmu_role, mmu_lock, pc, zapper>>

\* kvm_tdp_mmu_zap_gfn_range has returned, or is in cond_resched_lock with
\* the lock released.  `all`: kvm_tdp_mmu_zap_all called it, and flushes
\* when it returns true (lines 374-375).
ZapperStops(r, start, end, all) ==
    /\ spt' = r.m.spt
    /\ sp' = r.m.sp
    /\ tdp_mmu_pages' = r.m.pages
    /\ bug' = r.m.bug
    /\ IF r.done
       THEN /\ zapper' = ZapperIdle
            /\ log' = IF all /\ r.flush THEN Append(r.m.log, [ev |-> "flush_all"])
                      ELSE r.m.log
            /\ Called(IF all THEN <<"zap_all", start, end>>
                      ELSE <<"zap_gfn_range", start, end>>,
                      IF r.flush THEN 1 ELSE 0)
       ELSE /\ zapper' = [pc |-> "yielded", root |-> r.root, iter |-> r.iter,
                          start |-> start, end |-> end, flush |-> r.flush,
                          log |-> r.m.log, all |-> all]
            /\ UNCHANGED <<log, last, pre>>
    /\ UNCHANGED <<tdp_mmu_roots, root_hpa, mmu_role, mmu_lock, pc>>

\* A thread that holds the lock zaps the guest frames [start, end) and may
\* yield; `resched` says after which frames the lock is wanted.
ZapGfnRange(start, end, resched) ==
    /\ ~bug
    /\ zapper.pc = "idle"
    /\ spin_lock_granted(mmu_lock)
    /\ \E r \in {kvm_tdp_mmu_zap_gfn_range(Mem, tdp_mmu_roots, start, end, resched)} :
          ZapperStops(r, start, end, FALSE)

\* kvm_tdp_mmu_zap_all, lines 368-376.
ZapAll(resched) ==
    /\ ~bug
    /\ zapper.pc = "idle"
    /\ spin_lock_granted(mmu_lock)
    /\ \E r \in {kvm_tdp_mmu_zap_gfn_range(Mem, tdp_mmu_roots, 0, max_gfn, resched)} :
          ZapperStops(r, 0, max_gfn, TRUE)

\* cond_resched_lock has the lock again: the zap goes on.  After MaxYields
\* yields no one asks for the lock any more.
ZapResume(resched) ==
    /\ ~bug
    /\ zapper.pc = "yielded"
    /\ spin_lock_granted(mmu_lock)
    /\ Cardinality({i \in 1..Len(zapper.log) : zapper.log[i].ev = "unlock"}) >= MaxYields
         => resched = {}
    /\ \E r \in {kvm_tdp_mmu_zap_gfn_range_resume(
                     [Mem EXCEPT !.log = zapper.log], tdp_mmu_roots, zapper.root,
                     zapper.iter, zapper.start, zapper.end, resched,
                     zapper.flush)} :
          ZapperStops(r, zapper.start, zapper.end, zapper.all)

\* One vCPU, outside SMM, and the notifier.
Next ==
    \/ RootLock(1, FALSE)
    \/ RootScan(1)
    \/ RootInsert(1)
    \/ PutRoot(1)
    \/ \E gfn \in Gfns, level \in LeafLevels, pfn \in Pfns :
           Fault(1, gfn, level, pfn, TRUE, TRUE, FALSE, FALSE)
    \/ \E start \in 0..MaxGfn, end \in 1..(MaxGfn + 1) : ZapHvaRange(start, end)

Spec == Init /\ [][Next]_vars

\* Every vCPU, in and outside SMM, gets and gives up its root.
NextRoots ==
    \E v \in Vcpus :
        \/ \E smm \in BOOLEAN : RootLock(v, smm)
        \/ RootScan(v)
        \/ RootInsert(v)
        \/ PutRoot(v)

SpecRoots == Init /\ [][NextRoots]_vars

\* The guest frames of the first page table of level 1 but the last one: no
\* range of them covers the table.
YieldGfns == 0..(PT64_ENT_PER_PAGE - 2)

\* One vCPU that faults small pages in, the notifier, and the thread that
\* zaps and yields.
NextYield ==
    \/ RootLock(1, FALSE)
    \/ RootScan(1)
    \/ RootInsert(1)
    \/ PutRoot(1)
    \/ \E gfn \in YieldGfns : Fault(1, gfn, PG_LEVEL_4K, 1, TRUE, TRUE, FALSE, FALSE)
    \/ \E start \in YieldGfns, end \in YieldGfns : ZapHvaRange(start, end + 1)
    \/ \E start \in YieldGfns, resched \in SUBSET YieldGfns :
           \E end \in {gfn \in YieldGfns : start <= gfn} :
               ZapGfnRange(start, end + 1, resched)
    \/ \E resched \in SUBSET YieldGfns : ZapResume(resched)

SpecYield == Init /\ [][NextYield]_vars

\* A guest frame inside the physical address width of the host and the
\* first one past it, which the root covers as well.
HighGfns == {0, max_gfn}

\* One vCPU that faults small pages in on both sides of the physical address
\* width of the host, and the notifier.
NextHighGfn ==
    \/ RootLock(1, FALSE)
    \/ RootScan(1)
    \/ RootInsert(1)
    \/ PutRoot(1)
    \/ \E gfn \in HighGfns : Fault(1, gfn, PG_LEVEL_4K, 1, TRUE, TRUE, FALSE, FALSE)
    \/ \E start \in HighGfns, end \in HighGfns : ZapHvaRange(start, end + 1)

SpecHighGfn == Init /\ [][NextHighGfn]_vars

\* One vCPU that faults small pages in on both sides of the physical address
\* width of the host, and the thread that zaps everything and may yield
\* after it cleared the entry of guest frame 0.
NextZapAll ==
    \/ RootLock(1, FALSE)
    \/ RootScan(1)
    \/ RootInsert(1)
    \/ PutRoot(1)
    \/ \E gfn \in HighGfns : Fault(1, gfn, PG_LEVEL_4K, 1, TRUE, TRUE, FALSE, FALSE)
    \/ \E resched \in SUBSET {0} : ZapAll(resched)
    \/ \E resched \in SUBSET {0} : ZapResume(resched)

SpecZapAll == Init /\ [][NextZapAll]_vars

\* Init with the invocations of handle_changed_spte kept from call to call.
InitHistory ==
    /\ spt = <<>>
    /\ sp = <<>>
    /\ tdp_mmu_pages = {}
    /\ tdp_mmu_roots = <<>>
    /\ root_hpa = [v \in Vcpus |-> INVALID_PAGE]
    /\ mmu_role = [v \in Vcpus |-> FALSE]
    /\ mmu_lock = {}
    /\ pc = [v \in Vcpus |-> "idle"]
    /\ log = <<>>
    /\ bug = FALSE
    /\ last = [NoCall EXCEPT !.track = TRUE]
    /\ pre = [spt |-> <<>>, sp |-> <<>>, roots |-> <<>>]
    /\ zapper = ZapperIdle

\* The first guest frames of the first two page tables of level 1.
HistoryGfns == {0, PT64_ENT_PER_PAGE}

\* One vCPU that faults small pages in below two entries of a page table of
\* level 2, and the notifier that zaps what the first of them maps.
NextHistory ==
    \/ RootLock(1, FALSE)
    \/ RootScan(1)
    \/ RootInsert(1)
    \/ PutRoot(1)
    \/ \E gfn \in HistoryGfns : Fault(1, gfn, PG_LEVEL_4K, 1, TRUE, TRUE, FALSE, FALSE)
    \/ \E end \in {1, PT64_ENT_PER_PAGE} : ZapHvaRange(0, end)

SpecHistory == InitHistory /\ [][NextHistory]_vars

\* The guest frames of the faults below: two that share a page table of
\* level 1.
DirtyGfns == 0..1

\* One vCPU that faults pages in that the host maps writable or read-only,
\* and the notifier.
NextDirty ==
    \/ RootLock(1, FALSE)
    \/ RootScan(1)
    \/ RootInsert(1)
    \/ PutRoot(1)
    \/ \E gfn \in DirtyGfns, level \in LeafLevels, pfn \in Pfns, map_writable \in BOOLEAN :
           Fault(1, gfn, level, pfn, map_writable, TRUE, FALSE, FALSE)
    \/ \E start \in DirtyGfns, end \in DirtyGfns : ZapHvaRange(start, end + 1)

SpecDirty == Init /\ [][NextDirty]_vars

\* One vCPU that gets a root and faults small pages in, with the allocator
\* full or left with few pages, and the notifier.
NextFewPages ==
    \/ RootLock(1, FALSE)
    \/ RootScan(1)
    \/ RootInsert(1)
    \/ RootInsertNoPage(1)
    \/ PutRoot(1)
    \/ \E gfn \in Gfns : Fault(1, gfn, PG_LEVEL_4K, 1, TRUE, TRUE, FALSE, FALSE)
    \/ \E gfn \in Gfns, nobjs \in 0..(RootLevel - 2) : FaultFewPages(1, gfn, 1, nobjs)
    \/ \E start \in 0..MaxGfn, end \in 1..(MaxGfn + 1) : ZapHvaRange(start, end)

SpecFewPages == Init /\ [][NextFewPages]_vars

\* One vCPU that faults pages of every size in, and a thread that zaps
\* ranges of any bounds, end before start included.
NextAnyRange ==
    \/ RootLock(1, FALSE)
    \/ RootScan(1)
    \/ RootInsert(1)
    \/ PutRoot(1)
    \/ \E gfn \in Gfns, level \in LeafLevels :
           Fault(1, gfn, level, 1, TRUE, TRUE, FALSE, FALSE)
    \/ \E start \in 0..(MaxGfn + 1), end \in 0..(MaxGfn + 1) :
           ZapGfnRange(start, end, {})

SpecAnyRange == Init /\ [][NextAnyRange]_vars

\* One vCPU that faults small pages in and gives up its root, the notifier,
\* and the thread that zaps a range or everything and may yield.
NextRelease ==
    \/ RootLock(1, FALSE)
    \/ RootScan(1)
    \/ RootInsert(1)
    \/ PutRoot(1)
    \/ \E gfn \in YieldGfns : Fault(1, gfn, PG_LEVEL_4K, 1, TRUE, TRUE, FALSE, FALSE)
    \/ \E start \in YieldGfns, end \in YieldGfns : ZapHvaRange(start, end + 1)
    \/ \E start \in YieldGfns, resched \in SUBSET YieldGfns :
           \E end \in {gfn \in YieldGfns : start <= gfn} :
               ZapGfnRange(start, end + 1, resched)
    \/ \E resched \in SUBSET YieldGfns : ZapAll(resched)
    \/ \E resched \in SUBSET YieldGfns : ZapResume(resched)

SpecRelease == Init /\ [][NextRelease]_vars

\* The guest frames the walk of a zap is resumed over: one in the first page
\* table of level 1 and the first one of the second.
WalkGfns == {1, PT64_ENT_PER_PAGE}

\* One vCPU that faults small and large pages in, the notifier, which frees
\* page tables, and the thread that zaps and yields: page tables are freed
\* and replaced while the zap has the lock released.
NextWalk ==
    \/ RootLock(1, FALSE)
    \/ RootScan(1)
    \/ RootInsert(1)
    \/ PutRoot(1)
    \/ \E gfn \in WalkGfns, level \in LeafLevels :
           Fault(1, gfn, level, 1, TRUE, TRUE, FALSE, FALSE)
    \/ \E end \in {PT64_ENT_PER_PAGE, max_gfn} : ZapHvaRange(0, end)
    \/ \E start \in {0, 1}, resched \in SUBSET {0, 1} :
           ZapGfnRange(start, PT64_ENT_PER_PAGE + 1, resched)
    \/ \E resched \in SUBSET {0, 1} : ZapResume(resched)

SpecWalk == Init /\ [][NextWalk]_vars

\* Two guest frames of one page table of level 1.
EmulateGfns == 0..1

\* One vCPU whose faults read or write, inside a memslot or outside every
\* one, on pages that are write-protected or not, and the notifier.
NextEmulate ==
    \/ RootLock(1, FALSE)
    \/ RootScan(1)
    \/ RootInsert(1)
    \/ PutRoot(1)
    \/ \E gfn \in EmulateGfns, pfn \in 0..MaxPfn, map_writable \in BOOLEAN,
          write \in BOOLEAN, wrprot \in BOOLEAN :
           \E level \in {l \in LeafLevels : is_noslot_pfn(pfn) => l = PG_LEVEL_4K} :
               Fault(1, gfn, level, pfn, map_writable, write, FALSE, wrprot)
    \/ \E end \in {1, PT64_ENT_PER_PAGE} : ZapHvaRange(0, end)

SpecEmulate == Init /\ [][NextEmulate]_vars

\* One vCPU that faults a small page in and gives up its root while the
\* thread that zaps has yielded, and faults that are handed a root no one
\* counts.
NextUncounted ==
    \/ RootLock(1, FALSE)
    \/ RootScan(1)
    \/ RootInsert(1)
    \/ PutRoot(1)
    \/ \E gfn \in YieldGfns : Fault(1, gfn, PG_LEVEL_4K, 1, TRUE, TRUE, FALSE, FALSE)
    \/ \E root \in PageIds, gfn \in YieldGfns : FaultUncounted(1, root, gfn, 1)
    \/ \E resched \in SUBSET YieldGfns :
           ZapGfnRange(0, PT64_ENT_PER_PAGE - 1, resched)
    \/ \E resched \in SUBSET YieldGfns : ZapResume(resched)

SpecUncounted == Init /\ [][NextUncounted]_vars

----------------------------------------------------------------------------
\* What the properties below read off a state.

Events(ev) == {i \in 1..Len(log) : log[i].ev = ev}

\* The level of the entry the i-th event, a write, changed, as the
\* handle_changed_spte call that follows the write was told.
WriteLevel(i) == log[i + 1].level

WriteGfn(i) == log[i + 1].gfn

PresentLeaf(spte, level) == is_shadow_present_pte(spte) /\ is_last_spte(spte, level)

PresentNonLeaf(spte, level) == is_shadow_present_pte(spte) /\ ~is_last_spte(spte, level)

AllGfns == 0..(tdp_root_gfns - 1)

RootsOf(roots) == {roots[i] : i \in 1..Len(roots)}

\* The walk of the hardware for a guest frame over the page tables S, from
\* the table pt of the given level: the entry the walk ends at.
RECURSIVE Lookup(_, _, _, _)
Lookup(S, pt, level, gfn) ==
    LET idx == (gfn \div KVM_PAGES_PER_HPAGE(level)) % PT64_ENT_PER_PAGE
        e == S[pt][idx]
    IN IF PresentNonLeaf(e, level)
       THEN Lookup(S, spte_to_child_pt(e, level), level - 1, gfn)
       ELSE [pt |-> pt, idx |-> idx, level |-> level, spte |-> e]

\* The same walk, stopped at the level `target` when it gets that far.
RECURSIVE EntryAt(_, _, _, _, _)
EntryAt(S, pt, level, gfn, target) ==
    LET idx == (gfn \div KVM_PAGES_PER_HPAGE(level)) % PT64_ENT_PER_PAGE
        e == S[pt][idx]
    IN IF level > target /\ PresentNonLeaf(e, level)
       THEN EntryAt(S, spte_to_child_pt(e, level), level - 1, gfn, target)
       ELSE [pt |-> pt, idx |-> idx, level |-> level, spte |-> e]

\* The page tables a walk from pt can get to, pt included.
RECURSIVE Reachable(_, _, _)
Reachable(S, pt, level) ==
    {pt} \cup UNION {Reachable(S, spte_to_child_pt(S[pt][idx], level), level - 1) :
                        idx \in {i \in PtIndexes : PresentNonLeaf(S[pt][i], level)}}

LastIs(name) == last.call[1] = name

----------------------------------------------------------------------------
\* C2: whenever handle_change is told that an entry went from a present leaf
\* to a present leaf of a different host frame, the host is brought down:
\* the BUG is the next and the last thing that happens, no bookkeeping is
\* done after it and the operation does not return normally.
C2_InvalidLeafChange(i) ==
    /\ log[i].ev = "handle_changed_spte"
    /\ PresentLeaf(log[i].old, log[i].level)
    /\ PresentLeaf(log[i].new, log[i].level)
    /\ spte_to_pfn(log[i].old) # spte_to_pfn(log[i].new)

C2_LeafToLeafPfnChangeAborts ==
    \A i \in 1..Len(log) :
        C2_InvalidLeafChange(i)
            => /\ bug
               /\ i + 1 = Len(log)
               /\ log[i + 1].ev = "BUG"
               /\ last.ret = -1

C2_Witness ==
    /\ bug
    /\ \E i \in 1..Len(log) : C2_InvalidLeafChange(i)

----------------------------------------------------------------------------
\* The writes of the last call that stored a present leaf over an entry of
\* level 2 that pointed to a child table.
C3_LargeStores ==
    {i \in Events("write") :
        /\ WriteLevel(i) = PG_LEVEL_4K + 1
        /\ PresentNonLeaf(log[i].old, WriteLevel(i))
        /\ PresentLeaf(log[i].new, WriteLevel(i))}

\* The writes that made a present leaf of level 1 in the child table of the
\* store i not-present.
C3_SmallClears(i) ==
    {j \in Events("write") :
        /\ log[j].pt = spte_to_child_pt(log[i].old, WriteLevel(i))
        /\ WriteLevel(j) = PG_LEVEL_4K
        /\ PresentLeaf(log[j].old, WriteLevel(j))
        /\ ~is_shadow_present_pte(log[j].new)}

C3_FlushCovers(k, gfn) ==
    /\ log[k].ev = "flush"
    /\ log[k].gfn <= gfn
    /\ gfn < log[k].gfn + log[k].pages

\* C3 as the specification states it: the leaf of level 1 is made
\* not-present and a flush covering it is requested before the leaf of
\* level 2 is stored.
C3_ClearedAndFlushedBeforeStore ==
    LastIs("map") =>
        \A i \in C3_LargeStores : \A j \in C3_SmallClears(i) :
            /\ j < i
            /\ \E k \in (j + 1)..(i - 1) : C3_FlushCovers(k, WriteGfn(j))

\* C3: when handle_fault stores a leaf of level 2 over an entry that points
\* to a child table holding a present leaf of level 1, the leaf of level 2
\* is stored first; the bookkeeping of that store then makes the leaf of
\* level 1 not-present, requests a flush that covers it, and frees the child
\* table after the flush, all of it before handle_fault returns with the
\* leaf of level 2 in place.
C3_StoreThenClearFlushFree ==
    LastIs("map") =>
        \A i \in C3_LargeStores :
            /\ spt[log[i].pt][log[i].idx] = log[i].new
            /\ \A j \in C3_SmallClears(i) :
                /\ i < j
                /\ \E k \in (j + 1)..Len(log) :
                      /\ C3_FlushCovers(k, WriteGfn(j))
                      /\ \E f \in (k + 1)..Len(log) :
                            /\ log[f].ev = "free_page"
                            /\ log[f].pt = log[j].pt

C3_Witness ==
    /\ LastIs("map")
    /\ \E i \in C3_LargeStores : C3_SmallClears(i) # {}

----------------------------------------------------------------------------
\* The writes of the last call that removed a present non-leaf entry: the
\* entry became not-present, or a leaf, or points to another frame.
C4_Removals ==
    {i \in Events("write") :
        /\ PresentNonLeaf(log[i].old, WriteLevel(i))
        /\ \/ ~is_shadow_present_pte(log[i].new)
           \/ is_last_spte(log[i].new, WriteLevel(i))
           \/ spte_to_pfn(log[i].new) # spte_to_pfn(log[i].old)}

\* The page tables that hung below the removed entry of the write i.
C4_Subtree(i) ==
    Reachable(pre.spt, spte_to_child_pt(log[i].old, WriteLevel(i)), WriteLevel(i) - 1)

\* C4: in every operation the number of free_page calls for non-root page
\* tables is the number of present non-leaf entries that were removed; the
\* tables freed are the children of those entries, none is freed twice, and
\* none is leaked: every table that hung below a removed entry is freed,
\* off the page list and no longer allocated.
C4_FreesMatchRemovals ==
    /\ Cardinality(Events("free_page")) = Cardinality(C4_Removals)
    /\ {log[f].pt : f \in Events("free_page")}
         = {spte_to_child_pt(log[i].old, WriteLevel(i)) : i \in C4_Removals}
    /\ \A f, g \in Events("free_page") : log[f].pt = log[g].pt => f = g
    /\ \A f \in Events("free_page") :
          log[f].pt \notin DOMAIN spt /\ log[f].pt \notin tdp_mmu_pages
    /\ \A i \in C4_Removals : \A pt \in C4_Subtree(i) :
          /\ pt \notin DOMAIN spt
          /\ \E f \in Events("free_page") : log[f].pt = pt

C4_Witness ==
    /\ Cardinality(Events("free_page")) >= 2
    /\ Cardinality(C4_Removals) >= 2

----------------------------------------------------------------------------
\* The arguments of the last call, when it was a fault.
FaultVcpu == last.call[2]
FaultGfn == last.call[3]
FaultLevel == last.call[4]
FaultPfn == last.call[5]

\* C5 as the specification states it: of two handle_fault calls in a row
\* with the same arguments, the first of which stored the mapping, the first
\* returns "installed" and the second "spurious", and the second leaves the
\* tree as the first left it.
C5_InstalledThenSpurious ==
    (LastIs("map") /\ last.again /\ last.prev_wrote)
        => /\ last.prev_ret = RET_PF_FIXED
           /\ last.ret = RET_PF_SPURIOUS
           /\ spt = pre.spt
           /\ sp = pre.sp

----------------------------------------------------------------------------
\* The arguments of the last call, when it was a zap.
ZapStart == last.call[2]
ZapEnd == last.call[3]

\* C6: a zap of [a, b) that follows a zap of the same range, with nothing in
\* between, returns false and changes no entry.
C6_SecondZapClearsNothing ==
    (LastIs("zap_hva_range") /\ last.again)
        => /\ last.ret = 0
           /\ Events("write") = {}
           /\ spt = pre.spt

C6_Witness ==
    /\ LastIs("zap_hva_range")
    /\ last.again
    /\ last.prev_ret = 1
    /\ last.prev_wrote

----------------------------------------------------------------------------
\* C7: when handle_fault has returned with the leaf for the guest frame F and
\* the host frame H in place, the walk for F from the same root goes through
\* present non-leaf entries at every level above the leaf's and ends at a
\* present leaf of the requested level that maps H.
C7_Found == Lookup(spt, root_hpa[FaultVcpu], sp[root_hpa[FaultVcpu]].role.level, FaultGfn)

C7_FaultThenWalkFindsLeaf ==
    (/\ LastIs("map")
     /\ ~bug
     /\ root_hpa[FaultVcpu] # INVALID_PAGE
     /\ last.ret \in {0, RET_PF_SPURIOUS})
        => /\ C7_Found.level = FaultLevel
           /\ PresentLeaf(C7_Found.spte, C7_Found.level)
           /\ spte_to_pfn(C7_Found.spte) = FaultPfn

C7_Witness ==
    /\ LastIs("map")
    /\ ~bug
    /\ root_hpa[FaultVcpu] # INVALID_PAGE
    /\ last.ret = 0
    /\ FaultLevel = PG_LEVEL_4K
    /\ Cardinality({i \in Events("write") : PresentNonLeaf(log[i].new, WriteLevel(i))})
         = RootLevel - 1
    /\ PresentLeaf(C7_Found.spte, C7_Found.level)

----------------------------------------------------------------------------
\* Every mapping of the tree S under root is a leaf of level 1.
C8_AllSmall(S, P, root) ==
    \A g \in AllGfns :
        LET found == Lookup(S, root, P[root].role.level, g)
        IN is_shadow_present_pte(found.spte) => found.level = PG_LEVEL_4K

C8_Mapped(S, P, root, g) ==
    is_shadow_present_pte(Lookup(S, root, P[root].role.level, g).spte)

\* C8: when every mapping is a leaf of level 1, a zap of [a, b) leaves no
\* guest frame of [a, b) mapped, and every guest frame outside [a, b) is
\* mapped after it exactly when it was before, by the same entry with the
\* same value.
C8_ZapClearsExactlyTheRange ==
    LastIs("zap_hva_range") =>
        \A root \in RootsOf(tdp_mmu_roots) :
            C8_AllSmall(pre.spt, pre.sp, root) =>
                \A g \in AllGfns :
                    IF ZapStart <= g /\ g < ZapEnd
                    THEN ~C8_Mapped(spt, sp, root, g)
                    ELSE Lookup(spt, root, sp[root].role.level, g)
                           = Lookup(pre.spt, root, pre.sp[root].role.level, g)

C8_Witness ==
    /\ LastIs("zap_hva_range")
    /\ \E root \in RootsOf(tdp_mmu_roots) :
          /\ C8_AllSmall(pre.spt, pre.sp, root)
          /\ \E g, h \in AllGfns :
                /\ ZapStart <= g /\ g < ZapEnd
                /\ C8_Mapped(pre.spt, pre.sp, root, g)
                /\ ~C8_Mapped(spt, sp, root, g)
                /\ ~(ZapStart <= h /\ h < ZapEnd)
                /\ C8_Mapped(spt, sp, root, h)

----------------------------------------------------------------------------
\* The entry of level 2 for the start of the last zap, as the zap found it.
C10_Parent(root) ==
    EntryAt(pre.spt, root, pre.sp[root].role.level, ZapStart, PG_LEVEL_4K + 1)

\* The zapped range is what one entry of level 2 covers, and that entry
\* pointed to a child table.
C10_SpansChild(root) ==
    /\ ZapStart % KVM_PAGES_PER_HPAGE(PG_LEVEL_4K + 1) = 0
    /\ ZapEnd = ZapStart + KVM_PAGES_PER_HPAGE(PG_LEVEL_4K + 1)
    /\ C10_Parent(root).level = PG_LEVEL_4K + 1
    /\ PresentNonLeaf(C10_Parent(root).spte, PG_LEVEL_4K + 1)

C10_Child(root) == spte_to_child_pt(C10_Parent(root).spte, PG_LEVEL_4K + 1)

\* C10: a zap of exactly the range of one child table clears the entry that
\* points to it and frees the child once; no other table is freed, the
\* table that held the entry stays allocated and linked, and its other
\* entries are unchanged.
C10_ExactSpanFreesOnlyChild ==
    LastIs("zap_hva_range") =>
        \A root \in RootsOf(tdp_mmu_roots) :
            C10_SpansChild(root) =>
                /\ ~is_shadow_present_pte(spt[C10_Parent(root).pt][C10_Parent(root).idx])
                /\ C10_Child(root) \notin DOMAIN spt
                /\ Cardinality(Events("free_page")) = 1
                /\ \A f \in Events("free_page") : log[f].pt = C10_Child(root)
                /\ Events("free_root") = {}
                /\ DOMAIN spt = DOMAIN pre.spt \ {C10_Child(root)}
                /\ C10_Parent(root).pt \in Reachable(spt, root, sp[root].role.level)
                /\ \A idx \in PtIndexes \ {C10_Parent(root).idx} :
                      spt[C10_Parent(root).pt][idx] = pre.spt[C10_Parent(root).pt][idx]

C10_Witness ==
    /\ LastIs("zap_hva_range")
    /\ \E root \in RootsOf(tdp_mmu_roots) :
          /\ C10_SpansChild(root)
          /\ C10_Child(root) \notin DOMAIN spt
          /\ \E idx \in PtIndexes \ {C10_Parent(root).idx} :
                is_shadow_present_pte(spt[C10_Parent(root).pt][idx])

----------------------------------------------------------------------------
\* C1: however the vCPUs interleave in getting and giving up their roots, no
\* two roots of the list have the same role.
C1_OneRootPerRole ==
    \A i, j \in 1..Len(tdp_mmu_roots) :
        sp[tdp_mmu_roots[i]].role = sp[tdp_mmu_roots[j]].role => i = j

\* Two vCPUs of the same role went through get_tdp_mmu_vcpu_root and share
\* the root.
C1_Witness ==
    /\ \E v, w \in Vcpus :
          /\ v # w
          /\ root_hpa[v] # INVALID_PAGE
          /\ root_hpa[v] = root_hpa[w]
          /\ sp[root_hpa[v]].root_count = 2
          /\ LastIs("get_root")
          /\ last.call[3] = "hit"

----------------------------------------------------------------------------
\* The last call was a zap that cleared leaves of level 1 of one page table
\* and nothing else, for a range inside that table's that does not cover it.
C9_Case ==
    /\ LastIs("zap_gfn_range") \/ LastIs("zap_hva_range")
    /\ ZapStart \div PT64_ENT_PER_PAGE = (ZapEnd - 1) \div PT64_ENT_PER_PAGE
    /\ ZapEnd - ZapStart < PT64_ENT_PER_PAGE
    /\ Events("write") # {}
    /\ \A i \in Events("write") :
          /\ WriteLevel(i) = PG_LEVEL_4K
          /\ PresentLeaf(log[i].old, PG_LEVEL_4K)
          /\ ~is_shadow_present_pte(log[i].new)
          /\ ZapStart <= WriteGfn(i) /\ WriteGfn(i) < ZapEnd
          /\ \A j \in Events("write") : log[j].pt = log[i].pt

\* The flushes the zap requested, with the one its caller owes when it
\* returns true (kvm_tdp_mmu_zap_all, lines 374-375).
C9_FlushRequests ==
    Cardinality(Events("flush_all")) + Cardinality(Events("flush")) + last.ret

\* C9 as the specification states it: such a zap results in exactly one
\* flush request (a flush of the whole cache covers [a, b)).
C9_ExactlyOneFlush == C9_Case => C9_FlushRequests = 1

C9_LastWrite == CHOOSE w \in Events("write") : \A i \in Events("write") : i <= w

\* C9: such a zap requests no flush of a range; it requests a flush of the
\* whole translation cache, which covers [a, b), at every yield and only
\* there, each time after a leaf it cleared since the flush before; a zap
\* that cannot yield requests none.  It returns true exactly when the last
\* leaf it cleared was not followed by a yield.  With the flush its caller
\* owes on true that makes at least one request and at most one for every
\* leaf cleared.
C9_FlushAtYieldElseOwed ==
    C9_Case =>
        /\ Events("flush") = {}
        /\ \A u \in Events("unlock") : u > 1 /\ log[u - 1].ev = "flush_all"
        /\ \A k \in Events("flush_all") :
              /\ k < Len(log) /\ log[k + 1].ev = "unlock"
              /\ \E w \in Events("write") :
                    /\ w < k
                    /\ \A i \in (w + 1)..(k - 1) : log[i].ev \notin {"write", "flush_all"}
        /\ LastIs("zap_hva_range") => Events("flush_all") = {}
        /\ last.ret = 1 <=> \A k \in Events("flush_all") : k < C9_LastWrite
        /\ last.ret \in {0, 1}
        /\ C9_FlushRequests >= 1
        /\ C9_FlushRequests <= Cardinality(Events("write"))

\* Two leaves cleared, a yield after the first one and none after the second.
C9_Witness ==
    /\ C9_Case
    /\ LastIs("zap_gfn_range")
    /\ Cardinality(Events("write")) = 2
    /\ Cardinality(Events("flush_all")) = 1
    /\ last.ret = 1

----------------------------------------------------------------------------
\* The vCPU of the last call, when it was get_tdp_mmu_vcpu_root, and the
\* role it asked for.
GetRootVcpu == last.call[2]
GetRootRole == page_role_for_level(mmu_role[GetRootVcpu], RootLevel)

\* C11: on a hit get_tdp_mmu_vcpu_root returns a listed root of the role
\* asked for with one reference more, and the list, the other roots and the
\* page tables are as before; on a miss no listed root had the role, and
\* the list has exactly one root more, the one returned, of that role with
\* one reference, every other root being as before.
C11_GetRootHitOrMiss ==
    LastIs("get_root") =>
        /\ last.call[3] = "hit" =>
              /\ last.ret \in RootsOf(pre.roots)
              /\ pre.sp[last.ret].role = GetRootRole
              /\ tdp_mmu_roots = pre.roots
              /\ sp = [pre.sp EXCEPT ![last.ret].root_count = @ + 1]
              /\ spt = pre.spt
        /\ last.call[3] = "miss" =>
              /\ \A r \in RootsOf(pre.roots) : pre.sp[r].role # GetRootRole
              /\ last.ret \notin DOMAIN pre.sp
              /\ Len(tdp_mmu_roots) = Len(pre.roots) + 1
              /\ RootsOf(tdp_mmu_roots) = RootsOf(pre.roots) \cup {last.ret}
              /\ sp[last.ret].role = GetRootRole
              /\ sp[last.ret].root_count = 1
              /\ \A r \in DOMAIN pre.sp : r \in DOMAIN sp /\ sp[r] = pre.sp[r]
              /\ \A r \in DOMAIN pre.spt : spt[r] = pre.spt[r]
        /\ last.call[3] \in {"hit", "miss"}
        /\ root_hpa[GetRootVcpu] = last.ret

\* A miss while a root of the other role is listed with a reference.
C11_Witness ==
    /\ LastIs("get_root")
    /\ last.call[3] = "miss"
    /\ Len(pre.roots) = 1
    /\ Len(tdp_mmu_roots) = 2
    /\ \E r \in RootsOf(pre.roots) : sp[r].root_count = 1

----------------------------------------------------------------------------
\* The vCPUs that hold a reference to the root.
C12_Holders(root) == {v \in Vcpus : root_hpa[v] = root}

\* The zap has yielded in the walk of the root, holding its reference.
C12_Pins(root) == zapper.pc = "yielded" /\ zapper.root = root

\* C12: while a zap has yielded in the walk of a root, the root is listed
\* and allocated and counts the reference of the zap besides those of the
\* vCPUs; and a step frees a root only when the one reference left is the
\* one the step drops, so never a root the zap has pinned.
C12_PinnedRootNotFreed ==
    /\ [](\A root \in PageIds :
            C12_Pins(root) =>
                /\ root \in DOMAIN spt
                /\ root \in RootsOf(tdp_mmu_roots)
                /\ sp[root].root_count = Cardinality(C12_Holders(root)) + 1)
    /\ [][\A root \in RootsOf(tdp_mmu_roots) :
            root \notin DOMAIN spt' =>
                /\ sp[root].root_count = 1
                /\ ~C12_Pins(root)
                /\ \E v \in C12_Holders(root) : root_hpa'[v] = INVALID_PAGE
                /\ \E i \in 1..Len(log') :
                      log'[i] = [ev |-> "free_root", pt |-> root]]_vars

\* A vCPU gave up the root while the zap had yielded in its walk: the
\* reference of the zap is the only one left.
C12_Witness ==
    /\ \E root \in RootsOf(tdp_mmu_roots) :
          /\ C12_Pins(root)
          /\ C12_Holders(root) = {}
          /\ sp[root].root_count = 1
    /\ LastIs("put_root")

----------------------------------------------------------------------------
\* The root the last call, a put_root, dropped a reference of.
PutRootRoot == last.call[3]

\* The page tables below the root as the call found them.
C13_Below == Reachable(pre.spt, PutRootRoot, pre.sp[PutRootRoot].role.level) \ {PutRootRoot}

C13_RootFreed == LastIs("put_root") /\ PutRootRoot \notin DOMAIN spt

\* C13 as the specification states it: when the last reference of a root is
\* dropped, the root leaves the list, every page table that was reachable
\* from it is freed exactly once and nothing else is, and the root page is
\* released once, as the last thing the call does, after every write and
\* every free of the teardown.
C13_FreeRootTearsDownThenReleases ==
    C13_RootFreed =>
        /\ PutRootRoot \in RootsOf(pre.roots)
        /\ tdp_mmu_roots = list_del(pre.roots, PutRootRoot)
        /\ \A pt \in C13_Below :
              /\ pt \notin DOMAIN spt
              /\ pt \notin tdp_mmu_pages
              /\ Cardinality({f \in Events("free_page") : log[f].pt = pt}) = 1
        /\ \A f \in Events("free_page") : log[f].pt \in C13_Below
        /\ DOMAIN spt = DOMAIN pre.spt \ (C13_Below \cup {PutRootRoot})
        /\ Events("free_root") = {Len(log)}
        /\ log[Len(log)].pt = PutRootRoot

----------------------------------------------------------------------------
\* The entry the walk of the last fault ended at in the tree it found.
C14_Hit ==
    Lookup(pre.spt, root_hpa[FaultVcpu], pre.sp[root_hpa[FaultVcpu]].role.level,
           FaultGfn)

\* The last call was a fault that found a present leaf above its target
\* level on its way.
C14_Case ==
    /\ LastIs("map")
    /\ root_hpa[FaultVcpu] # INVALID_PAGE
    /\ C14_Hit.level > FaultLevel
    /\ PresentLeaf(C14_Hit.spte, C14_Hit.level)

C14_WritesTo(slot) == {i \in Events("write") : log[i].pt = slot.pt /\ log[i].idx = slot.idx}

\* C14: no write of any operation turns a present leaf into a present
\* non-leaf entry; a fault that finds a present leaf above its target level
\* writes that entry twice: first not-present, then, after a flush request
\* for exactly the range the leaf covered, a present non-leaf entry.
C14_LargeLeafClearedFlushedThenLinked ==
    /\ \A i \in Events("write") :
          ~(PresentLeaf(log[i].old, WriteLevel(i)) /\ PresentNonLeaf(log[i].new, WriteLevel(i)))
    /\ C14_Case =>
          \E i, j \in C14_WritesTo(C14_Hit) :
              /\ C14_WritesTo(C14_Hit) = {i, j}
              /\ i < j
              /\ log[i].old = C14_Hit.spte
              /\ ~is_shadow_present_pte(log[i].new)
              /\ log[j].old = log[i].new
              /\ PresentNonLeaf(log[j].new, C14_Hit.level)
              /\ \E k \in (i + 1)..(j - 1) :
                    /\ log[k].ev = "flush"
                    /\ log[k].gfn = WriteGfn(i)
                    /\ log[k].gfn = FaultGfn - (FaultGfn % KVM_PAGES_PER_HPAGE(C14_Hit.level))
                    /\ log[k].pages = KVM_PAGES_PER_HPAGE(C14_Hit.level)

C14_Witness ==
    /\ C14_Case
    /\ ~bug
    /\ Cardinality(C14_WritesTo(C14_Hit)) = 2
    /\ Events("flush") # {}

----------------------------------------------------------------------------
\* The dirty notifications the i-th event, a handle_changed_spte call, sent
\* itself: the ones before the next call.
C15_Notifications(i) ==
    {k \in Events("kvm_set_pfn_dirty") :
        /\ k > i
        /\ \A j \in Events("handle_changed_spte") : ~(i < j /\ j < k)}

C15_OldDirtyLeaf(i) ==
    PresentLeaf(log[i].old, log[i].level) /\ is_dirty_spte(log[i].old)

C15_NewGoneOrOtherFrame(i) ==
    \/ ~is_shadow_present_pte(log[i].new)
    \/ spte_to_pfn(log[i].new) # spte_to_pfn(log[i].old)

C15_OneForOldFrame(i) ==
    \E k \in C15_Notifications(i) :
        /\ C15_Notifications(i) = {k}
        /\ log[k].pfn = spte_to_pfn(log[i].old)

C15_NoneWithoutDirtyBit(i) ==
    PresentLeaf(log[i].old, log[i].level) /\ ~is_dirty_spte(log[i].old)
        => C15_Notifications(i) = {}

\* C15 as the specification states it: every handle_changed_spte call whose
\* old value is a dirty present leaf and whose new value is not present or
\* has another frame sends exactly one dirty notification, for the old
\* frame; a call whose old value is a leaf that is not dirty sends none.
C15_DirtyLeafGoneNotifiesOnce ==
    \A i \in Events("handle_changed_spte") :
        /\ C15_OldDirtyLeaf(i) /\ C15_NewGoneOrOtherFrame(i) => C15_OneForOldFrame(i)
        /\ C15_NoneWithoutDirtyBit(i)

\* The call is the one line 190 stops: a leaf replaced by a leaf of another
\* frame.
C15_Aborts(i) ==
    /\ PresentLeaf(log[i].old, log[i].level)
    /\ PresentLeaf(log[i].new, log[i].level)
    /\ spte_to_pfn(log[i].new) # spte_to_pfn(log[i].old)

\* C15: a handle_changed_spte call whose old value is a dirty present leaf
\* and whose new value is not present, or is not a leaf and has another
\* frame, sends exactly one dirty notification, for the old frame; a call
\* that replaces a leaf by a leaf of another frame stops at BUG() and sends
\* none; a call whose old value is a leaf that is not dirty sends none.
C15_DirtyLeafGoneNotifiesOnceUnlessAborted ==
    \A i \in Events("handle_changed_spte") :
        /\ C15_OldDirtyLeaf(i) /\ C15_NewGoneOrOtherFrame(i) /\ ~C15_Aborts(i)
              => C15_OneForOldFrame(i)
        /\ C15_Aborts(i) => C15_Notifications(i) = {} /\ log[i + 1].ev = "BUG"
        /\ C15_NoneWithoutDirtyBit(i)

C15_Witness ==
    /\ ~bug
    /\ \E i \in Events("handle_changed_spte") :
          /\ C15_OldDirtyLeaf(i)
          /\ ~is_shadow_present_pte(log[i].new)
          /\ C15_OneForOldFrame(i)
    /\ \E i \in Events("handle_changed_spte") :
          /\ PresentLeaf(log[i].old, log[i].level)
          /\ ~is_dirty_spte(log[i].old)
          /\ ~is_shadow_present_pte(log[i].new)
          /\ C15_Notifications(i) = {}

----------------------------------------------------------------------------
\* The accessed notifications the i-th event, a handle_changed_spte call,
\* sent itself: the ones before the next call.
C16_Notifications(i) ==
    {k \in Events("kvm_set_pfn_accessed") :
        /\ k > i
        /\ \A j \in Events("handle_changed_spte") : ~(i < j /\ j < k)}

\* C16 as the specification states it: every handle_changed_spte call whose
\* old value is a present leaf with the accessed bit and whose new value is
\* not present sends an accessed notification for the frame of the old
\* value.
C16_AccessedLeafGoneNotifies ==
    \A i \in Events("handle_changed_spte") :
        /\ PresentLeaf(log[i].old, log[i].level)
        /\ is_accessed_spte(log[i].old)
        /\ ~is_shadow_present_pte(log[i].new)
        => \E k \in C16_Notifications(i) : log[k].pfn = spte_to_pfn(log[i].old)

----------------------------------------------------------------------------
\* The child table of the entry the write i removed.
C17_Child(i) == spte_to_child_pt(log[i].old, WriteLevel(i))

\* The write w clears entry idx of the child table of the removed entry of
\* the write i, and handle_changed_spte is told so one level down.
C17_TearsDown(i, w, idx) ==
    /\ log[w].pt = C17_Child(i)
    /\ log[w].idx = idx
    /\ log[w].old = pre.spt[C17_Child(i)][idx]
    /\ ~is_shadow_present_pte(log[w].new)
    /\ log[w + 1].ev = "handle_changed_spte"
    /\ log[w + 1].old = log[w].old
    /\ log[w + 1].new = log[w].new
    /\ log[w + 1].level = WriteLevel(i) - 1
    /\ log[w + 1].gfn = WriteGfn(i) + idx * KVM_PAGES_PER_HPAGE(WriteLevel(i) - 1)

\* C17: for every write that removes a present non-leaf entry, every entry
\* of the child table is cleared after it, with handle_changed_spte called
\* for the level below; then one flush is requested for the whole range of
\* the child table; then the child table is freed.  All the writes to the
\* child table and no free of it come before that flush request.
C17_ChildrenThenFlushThenFree ==
    \A i \in C4_Removals :
        \E k \in Events("flush"), f \in Events("free_page") :
            /\ i < k
            /\ k < f
            /\ log[k].gfn = WriteGfn(i)
            /\ log[k].pages = KVM_PAGES_PER_HPAGE(WriteLevel(i))
            /\ log[f].pt = C17_Child(i)
            /\ \A idx \in PtIndexes :
                  \E w \in Events("write") : i < w /\ w < k /\ C17_TearsDown(i, w, idx)
            /\ \A w \in Events("write") : log[w].pt = C17_Child(i) => i < w /\ w < k
            /\ \A g \in Events("free_page") : log[g].pt = C17_Child(i) => k < g

\* A fault or a zap removed a table that held a table that held a leaf.
C17_Witness ==
    /\ ~bug
    /\ \E i, j \in C4_Removals :
          /\ i < j
          /\ log[j].pt = C17_Child(i)
          /\ \E idx \in PtIndexes :
                PresentLeaf(pre.spt[C17_Child(j)][idx], WriteLevel(j) - 1)

----------------------------------------------------------------------------
\* The page tables of the tree S below and with the table pt, each with the
\* level of its entries and the first guest frame it maps.
RECURSIVE C18_Tables(_, _, _, _)
C18_Tables(S, pt, level, gfn) ==
    {[pt |-> pt, level |-> level, gfn |-> gfn]}
        \cup UNION {C18_Tables(S, spte_to_child_pt(S[pt][idx], level), level - 1,
                               gfn + idx * KVM_PAGES_PER_HPAGE(level)) :
                       idx \in {i \in PtIndexes : PresentNonLeaf(S[pt][i], level)}}

\* Where every table of the trees before and after the last call is.
C18_Places ==
    UNION ({C18_Tables(pre.spt, r, pre.sp[r].role.level, 0) : r \in RootsOf(pre.roots)}
           \cup {C18_Tables(spt, r, sp[r].role.level, 0) : r \in RootsOf(tdp_mmu_roots)})

\* The value the entry of the write w held when w began: what the write
\* before it to that entry left, or what the call found.
C18_Before(w) ==
    LET earlier == {v \in Events("write") :
                       v < w /\ log[v].pt = log[w].pt /\ log[v].idx = log[w].idx}
    IN IF earlier # {}
       THEN log[CHOOSE v \in earlier : \A u \in earlier : u <= v].new
       ELSE IF log[w].pt \in DOMAIN pre.spt
       THEN pre.spt[log[w].pt][log[w].idx]
       ELSE SPTE_ZERO

\* C18: every entry whose stored value a call changed was written by a
\* write of the log; every write of the log is followed at once by one
\* handle_changed_spte call that is told the value the entry held before the
\* write, the value written, the level of the entry and the first guest
\* frame the entry maps; no handle_changed_spte call is made without a
\* write.
C18_EveryWriteHandled ==
    ~LastIs("none") =>
        /\ \A pt \in DOMAIN spt \cap DOMAIN pre.spt : \A idx \in PtIndexes :
              spt[pt][idx] # pre.spt[pt][idx]
                  => \E w \in Events("write") : log[w].pt = pt /\ log[w].idx = idx
        /\ \A w \in Events("write") :
              /\ log[w].old = C18_Before(w)
              /\ w + 1 \in Events("handle_changed_spte")
              /\ log[w + 1].old = C18_Before(w)
              /\ log[w + 1].new = log[w].new
              /\ \E t \in C18_Places :
                    /\ t.pt = log[w].pt
                    /\ log[w + 1].level = t.level
                    /\ log[w + 1].gfn = t.gfn + log[w].idx * KVM_PAGES_PER_HPAGE(t.level)
        /\ \A h \in Events("handle_changed_spte") : h - 1 \in Events("write")

\* A call wrote entries of tables of two levels, one of them not the first
\* of its table, and changed a stored value.
C18_Witness ==
    /\ ~bug
    /\ \E w, v \in Events("write") :
          /\ log[w + 1].level # log[v + 1].level
          /\ log[w].idx > 0
          /\ log[w].old # log[w].new
          /\ log[w + 1].gfn > 0

----------------------------------------------------------------------------
\* What the i-th event of the last call, a handle_changed_spte call, did
\* itself: the abort or the dirty notification, and the flush request and
\* the free of the child table.
C19_Head(i) == InvocationHead(log, i)

C19_Tail(i) == InvocationTail(log, i)

C19_Direct(i) == C19_Head(i) \o C19_Tail(i)

\* The side effects the contract gives an invocation, from its arguments.
C19_Expected(old, new, level, gfn) ==
    IF PresentLeaf(old, level) /\ PresentLeaf(new, level)
       /\ spte_to_pfn(old) # spte_to_pfn(new)
    THEN <<[ev |-> "BUG"]>>
    ELSE IF old = new \/ (~is_shadow_present_pte(old) /\ ~is_shadow_present_pte(new))
    THEN <<>>
    ELSE (IF PresentLeaf(old, level) /\ is_dirty_spte(old)
             /\ (~is_dirty_spte(new) \/ spte_to_pfn(old) # spte_to_pfn(new))
          THEN <<[ev |-> "kvm_set_pfn_dirty", pfn |-> spte_to_pfn(old)]>>
          ELSE <<>>)
         \o (IF PresentNonLeaf(old, level)
                /\ (~is_shadow_present_pte(new) \/ spte_to_pfn(old) # spte_to_pfn(new))
             THEN <<[ev |-> "flush", gfn |-> gfn, pages |-> KVM_PAGES_PER_HPAGE(level)],
                    [ev |-> "free_page", pt |-> spte_to_child_pt(old, level)]>>
             ELSE <<>>)

\* C19: what a handle_changed_spte call does itself (the abort, the dirty
\* notification and its frame, the flush request and its range, the free
\* and its page) is a function of the old value, the new value, the level
\* and the guest frame it is called with, whatever the call site and the
\* state of the tree; the entries of a removed child table are handled by
\* calls of their own.
C19_EffectsFromArguments ==
    \A i \in Events("handle_changed_spte") :
        C19_Direct(i) = C19_Expected(log[i].old, log[i].new, log[i].level, log[i].gfn)

\* A call removed a table and cleared a dirty leaf.
C19_Witness ==
    /\ ~bug
    /\ \E i, j \in Events("handle_changed_spte") :
          /\ Len(C19_Tail(i)) = 2
          /\ Len(C19_Head(j)) = 1

\* C19 as the specification states it: an invocation of the last call and
\* an invocation of a call before it that were given the same old value, new
\* value and level did the same themselves.
C19_SameArgumentsSameEffects ==
    \A i \in Events("handle_changed_spte") : \A r \in last.seen :
        (r.old = log[i].old /\ r.new = log[i].new /\ r.level = log[i].level)
            => r.effects = C19_Direct(i)

----------------------------------------------------------------------------
\* The last call was a zap of a range: zap_gfn_range ran with can_yield set
\* (kvm_tdp_mmu_zap_gfn_range) or unset (kvm_tdp_mmu_zap_hva_range).
C20_CanYield == LastIs("zap_gfn_range")
C20_NoYield == LastIs("zap_hva_range")

\* The writes of the call since it last took the lock back, all of them when
\* it never yielded.
C20_WritesSinceYield ==
    {w \in Events("write") : \A k \in Events("lock") : k < w}

\* C20 as the specification states it: with can_yield set and unset the zap
\* of a range returns true exactly when it cleared an entry.
C20_TrueIffCleared ==
    (C20_CanYield \/ C20_NoYield) => (last.ret = 1 <=> Events("write") # {})

\* C20: with can_yield unset the zap of a range returns true exactly when it
\* cleared an entry; with can_yield set it returns true exactly when it
\* cleared an entry after its last yield, or at all when it did not yield.
C20_TrueIffClearedSinceYield ==
    /\ C20_NoYield => (last.ret = 1 <=> Events("write") # {})
    /\ C20_CanYield => (last.ret = 1 <=> C20_WritesSinceYield # {})

\* A zap that cleared an entry, yielded, and cleared another one.
C20_Witness ==
    /\ C20_CanYield
    /\ ~bug
    /\ Events("lock") # {}
    /\ C20_WritesSinceYield # {}
    /\ C20_WritesSinceYield # Events("write")
    /\ last.ret = 1

----------------------------------------------------------------------------
\* C21 as the specification states it: when kvm_tdp_mmu_zap_all has
\* returned, no entry of a listed root is present, no page table but the
\* roots is left, and after the last entry it cleared a flush of the whole
\* translation cache was requested.
C21_ZapAllLeavesNothing ==
    LastIs("zap_all") =>
        /\ \A r \in RootsOf(tdp_mmu_roots) : \A idx \in PtIndexes :
              ~is_shadow_present_pte(spt[r][idx])
        /\ \A r \in RootsOf(tdp_mmu_roots) :
              Reachable(spt, r, sp[r].role.level) = {r}
        /\ tdp_mmu_pages = {}
        /\ \A w \in Events("write") : \E k \in Events("flush_all") : w < k

----------------------------------------------------------------------------
\* The allocator had no page for the last call.
C22_NoPage == Events("no_page") # {}

\* Every present entry above level 1 that is no leaf points to a page table
\* that is allocated.
C22_WellFormed ==
    \A r \in RootsOf(tdp_mmu_roots) :
        \A t \in C18_Tables(spt, r, sp[r].role.level, 0) : t.pt \in DOMAIN spt

\* C22 as the specification states it: a fault or a get of a root for which
\* the allocator has no page does not stop the kernel and stores through no
\* missing page; the fault returns "retry", the get returns no root, and
\* the tree is well formed.
C22_NoPageIsRetry ==
    C22_NoPage =>
        /\ ~bug
        /\ Events("NULL dereference") = {}
        /\ LastIs("map") => last.ret = RET_PF_RETRY
        /\ LastIs("get_root") => last.ret = INVALID_PAGE
        /\ C22_WellFormed

----------------------------------------------------------------------------
\* The last call was a zap of a range that ends at or before its start.
C23_Malformed == LastIs("zap_gfn_range") /\ ZapEnd <= ZapStart

\* C23 as the specification states it: a zap of a range that ends at or
\* before its start is refused: it does not answer as a zap does (true or
\* false), writes no entry, frees no page and requests no flush.
C23_MalformedRangeRejected ==
    C23_Malformed =>
        /\ last.ret \notin {0, 1}
        /\ Events("write") = {}
        /\ Events("free_page") = {}
        /\ Events("flush") \cup Events("flush_all") = {}
        /\ spt = pre.spt

----------------------------------------------------------------------------
C24_Outcomes == {RET_PF_FIXED, RET_PF_SPURIOUS, RET_PF_EMULATE, RET_PF_RETRY}

\* The levels of the entries the walk of the last fault entered its loop
\* body for, in order.
C24_VisitedLevels ==
    LET IsVisit(e) == e.ev = "visit"
        visits == SelectSeq(log, IsVisit)
    IN [k \in 1..Len(visits) |-> visits[k].level]

\* One entry for every level from the root down to the target level, each
\* the entry that holds the guest frame of the fault.
C24_OneEntryPerLevel ==
    /\ Len(C24_VisitedLevels) = pre.sp[root_hpa[FaultVcpu]].role.level - FaultLevel + 1
    /\ \A k \in 1..Len(C24_VisitedLevels) :
          C24_VisitedLevels[k] = pre.sp[root_hpa[FaultVcpu]].role.level - k + 1
    /\ \A v \in Events("visit") :
          /\ log[v].gfn <= FaultGfn
          /\ FaultGfn < log[v].gfn + KVM_PAGES_PER_HPAGE(log[v].level)

C24_Walked == LastIs("map") /\ root_hpa[FaultVcpu] # INVALID_PAGE

----------------------------------------------------------------------------
\* In the log l the entry the write w changed is covered by a flush request
\* made after the write: of the whole translation cache, or of a range that
\* holds the guest frames of the entry.
C25_Flushed(l, w) ==
    \E k \in (w + 1)..Len(l) :
        \/ l[k].ev = "flush_all"
        \/ /\ l[k].ev = "flush"
           /\ l[k].gfn <= l[w + 1].gfn
           /\ l[w + 1].gfn + KVM_PAGES_PER_HPAGE(l[w + 1].level) <= l[k].gfn + l[k].pages

\* The writes of the log l that cleared a present entry.
C25_Clears(l) ==
    {w \in 1..Len(l) : l[w].ev = "write" /\ is_shadow_present_pte(l[w].old)
                                          /\ ~is_shadow_present_pte(l[w].new)}

C25_AllFlushed(l) == \A w \in C25_Clears(l) : C25_Flushed(l, w)

----------------------------------------------------------------------------
\* The lock releases of the log l.
C26_Unlocks(l) == {u \in 1..Len(l) : l[u].ev = "unlock"}

\* Every entry mutation of the log l that began before the event u is
\* complete at u: each write has had its handle_changed_spte call, and each
\* removed page table has been freed.
C26_MutationsComplete(l, u) ==
    /\ \A w \in 1..(u - 1) :
          l[w].ev = "write" => w + 1 < u /\ l[w + 1].ev = "handle_changed_spte"
    /\ \A h \in 1..(u - 1) :
          /\ l[h].ev = "handle_changed_spte"
          /\ PresentNonLeaf(l[h].old, l[h].level)
          /\ ~is_shadow_present_pte(l[h].new)
          => \E f \in (h + 1)..(u - 1) :
                /\ l[f].ev = "free_page"
                /\ l[f].pt = spte_to_child_pt(l[h].old, l[h].level)

\* The yield at the event u of the log l: an entry was cleared before it,
\* the flush request comes right before the release, and when the zap has
\* gone on the lock was taken again and then the walk was refreshed.
C26_YieldOrdered(l, u) ==
    /\ u > 2
    /\ l[u - 1].ev = "flush_all"
    /\ \E w \in 1..(u - 2) : l[w].ev = "write"
    /\ C26_MutationsComplete(l, u)
    /\ u < Len(l) => /\ u + 2 <= Len(l)
                     /\ l[u + 1].ev = "lock"
                     /\ l[u + 2].ev = "refresh_walk"

\* The lock is taken again in the log l only after a release.
C26_LocksFollowUnlocks(l) ==
    \A k \in 1..Len(l) : l[k].ev = "lock" => k > 1 /\ l[k - 1].ev = "unlock"

\* C26: the zap releases the lock only in kvm_tdp_mmu_zap_gfn_range and
\* kvm_tdp_mmu_zap_all, which can yield, and only at a yield that follows a
\* completed entry mutation; each yield is a flush request, then the
\* release, then the lock taken again, then the walk refreshed.  Freeing a
\* root, the host-address range zap and the fault handler never release it.
C26_LockReleasedOnlyAtYield ==
    /\ zapper.pc = "yielded" =>
          /\ zapper.log # <<>>
          /\ zapper.log[Len(zapper.log)].ev = "unlock"
          /\ \A u \in C26_Unlocks(zapper.log) : C26_YieldOrdered(zapper.log, u)
          /\ C26_LocksFollowUnlocks(zapper.log)
    /\ (LastIs("zap_gfn_range") \/ LastIs("zap_all")) =>
          /\ \A u \in C26_Unlocks(log) : C26_YieldOrdered(log, u) /\ u < Len(log)
          /\ C26_LocksFollowUnlocks(log)
    /\ ~(LastIs("zap_gfn_range") \/ LastIs("zap_all")) =>
          Events("unlock") = {} /\ Events("lock") = {}

\* A zap that can yield removed a page table, yielded, went on and cleared
\* another entry; a zap that cannot yield had cleared an entry before.
C26_Witness ==
    /\ LastIs("zap_gfn_range") \/ LastIs("zap_all")
    /\ ~bug
    /\ \E u \in C26_Unlocks(log) :
          /\ \E f \in 1..(u - 1) : log[f].ev = "free_page"
          /\ \E w \in (u + 1)..Len(log) : log[w].ev = "write"

----------------------------------------------------------------------------
\* The event w of the log l, a write, is one of the tear-down of a page
\* table: it comes after the removal of the entry that held the table and
\* before the table is freed.
C27_InTearDown(l, w) ==
    \E h \in 1..(w - 1) :
        /\ l[h].ev = "handle_changed_spte"
        /\ PresentNonLeaf(l[h].old, l[h].level)
        /\ ~is_shadow_present_pte(l[h].new)
        /\ \A f \in (h + 1)..(w - 1) :
              ~(l[f].ev = "free_page" /\ l[f].pt = spte_to_child_pt(l[h].old, l[h].level))

\* The writes of the zap loop itself in the log l, line 332.
C27_LoopWrites(l) == {w \in 1..Len(l) : l[w].ev = "write" /\ ~C27_InTearDown(l, w)}

\* The last yield of the last call and the write of the loop before it: the
\* entry the walk last visited.
C27_LastYield == CHOOSE u \in Events("unlock") : \A v \in Events("unlock") : v <= u

C27_LastVisited ==
    CHOOSE w \in C27_LoopWrites(log) :
        /\ w < C27_LastYield
        /\ \A v \in C27_LoopWrites(log) : v < C27_LastYield => v <= w

\* The guest frame the walk goes on from: the last visited one, or the start
\* of the range when the entry last visited began before it.
C27_ResumeGfn ==
    IF WriteGfn(C27_LastVisited) > ZapStart THEN WriteGfn(C27_LastVisited) ELSE ZapStart

\* The page tables of the roots when the zap went on after its last yield.
C27_LiveTables ==
    UNION {C18_Tables(pre.spt, r, pre.sp[r].role.level, 0) : r \in RootsOf(pre.roots)}

\* C27: when a zap that yielded has returned, every entry it wrote after its
\* last yield was in a page table that hung in the tree of a root when the
\* zap went on, at the level and for the guest frames the zap took it for,
\* and no guest frame of the range from the last visited one on is mapped.
C27_ResumedWalkIsSound ==
    (LastIs("zap_gfn_range") /\ Events("unlock") # {} /\ ~bug) =>
        /\ \A w \in Events("write") :
              w > C27_LastYield =>
                  \E t \in C27_LiveTables :
                      /\ t.pt = log[w].pt
                      /\ t.level = WriteLevel(w)
                      /\ t.gfn = round_gfn_for_level(WriteGfn(w), WriteLevel(w) + 1)
                      /\ log[w].old = log[w + 1].old
        /\ \A r \in RootsOf(tdp_mmu_roots) : \A gfn \in C27_ResumeGfn..(ZapEnd - 1) :
              ~is_shadow_present_pte(Lookup(spt, r, sp[r].role.level, gfn).spte)

\* A zap yielded at a page of the first page table of level 1; while it had
\* the lock released that page table was freed and the page was mapped
\* again, in a new page table or as part of a large page; the zap went on
\* and cleared that mapping.
C27_Witness ==
    /\ LastIs("zap_gfn_range")
    /\ Events("unlock") # {}
    /\ ~bug
    /\ log[C27_LastVisited].pt \notin {t.pt : t \in C27_LiveTables}
          \/ pre.spt[log[C27_LastVisited].pt][log[C27_LastVisited].idx]
               # log[C27_LastVisited].new
    /\ \E w \in Events("write") :
          /\ w > C27_LastYield
          /\ WriteGfn(w) <= C27_ResumeGfn
          /\ is_shadow_present_pte(log[w].old)

----------------------------------------------------------------------------
\* The entries of the page tables of the roots, as the last call found
\* them: where each is, its level, the first guest frame it covers and its
\* value.
C28_Entries ==
    {[pt |-> t.pt, idx |-> idx, level |-> t.level,
      gfn |-> t.gfn + idx * KVM_PAGES_PER_HPAGE(t.level), spte |-> pre.spt[t.pt][idx]] :
        t \in UNION {C18_Tables(pre.spt, r, pre.sp[r].role.level, 0) :
                        r \in RootsOf(pre.roots)},
        idx \in PtIndexes}

\* The guest frames [gfn, gfn + pages of the level) lie inside the zapped
\* range, or have a frame in common with it.
C28_Inside(gfn, level) ==
    ZapStart <= gfn /\ gfn + KVM_PAGES_PER_HPAGE(level) <= ZapEnd

C28_Intersects(gfn, level) ==
    gfn < ZapEnd /\ ZapStart < gfn + KVM_PAGES_PER_HPAGE(level)

\* The entries that point to a page table and do not lie inside the range.
C28_Partial ==
    {e \in C28_Entries : PresentNonLeaf(e.spte, e.level) /\ ~C28_Inside(e.gfn, e.level)}

\* The write w changed an entry below the entry e.
C28_Below(w, e) ==
    /\ WriteLevel(w) < e.level
    /\ e.gfn <= WriteGfn(w)
    /\ WriteGfn(w) < e.gfn + KVM_PAGES_PER_HPAGE(e.level)

\* The entry e is as the zap found it, no one wrote to it and its page table
\* is allocated and was not freed.
C28_Kept(e) ==
    /\ e.pt \in DOMAIN spt
    /\ spt[e.pt][e.idx] = e.spte
    /\ spte_to_child_pt(e.spte, e.level) \in DOMAIN spt
    /\ spte_to_child_pt(e.spte, e.level) \in tdp_mmu_pages
    /\ \A w \in Events("write") : ~(log[w].pt = e.pt /\ log[w].idx = e.idx)
    /\ \A f \in Events("free_page") : log[f].pt # spte_to_child_pt(e.spte, e.level)

\* C28 as stated: a zap keeps every entry that points to a page table and
\* does not lie inside the range, with its page table, and clears below it
\* only entries that lie inside the range.
C28_PartialKeptOnlyInsideCleared ==
    LastIs("zap_hva_range") =>
        \A e \in C28_Partial :
            /\ C28_Kept(e)
            /\ \A w \in Events("write") :
                  C28_Below(w, e) => C28_Inside(WriteGfn(w), WriteLevel(w))

\* C28: a zap keeps every entry that points to a page table and does not
\* lie inside the range, with its page table, and clears below it only
\* entries that lie inside the range and leaves that have a guest frame in
\* common with the range.
C28_PartialKeptOnlyInsideOrLeafCleared ==
    LastIs("zap_hva_range") =>
        \A e \in C28_Partial :
            /\ C28_Kept(e)
            /\ \A w \in Events("write") :
                  C28_Below(w, e) =>
                      /\ ~is_shadow_present_pte(log[w].new)
                      /\ \/ C28_Inside(WriteGfn(w), WriteLevel(w))
                         \/ /\ PresentLeaf(log[w].old, WriteLevel(w))
                            /\ C28_Intersects(WriteGfn(w), WriteLevel(w))

\* A zap found a page table of level 1 that reached past the range with a
\* page inside the range and a page outside: it cleared the first and kept
\* the second and the table.
C28_Witness ==
    /\ LastIs("zap_hva_range")
    /\ \E e \in C28_Partial :
          /\ e.level = PG_LEVEL_4K + 1
          /\ \E w \in Events("write") :
                C28_Below(w, e) /\ PresentLeaf(log[w].old, WriteLevel(w))
          /\ \E idx \in PtIndexes :
                PresentLeaf(spt[spte_to_child_pt(e.spte, e.level)][idx], PG_LEVEL_4K)

----------------------------------------------------------------------------
\* The large leaves of the root r, as the last call found them, that have a
\* guest frame in common with the zapped range and one outside it.
C29_PartialLargeLeaves(r) ==
    {e \in C28_Entries :
        /\ e.pt \in Reachable(pre.spt, r, pre.sp[r].role.level)
        /\ e.level > PG_LEVEL_4K
        /\ PresentLeaf(e.spte, e.level)
        /\ C28_Intersects(e.gfn, e.level)
        /\ ~C28_Inside(e.gfn, e.level)}

\* The guest frames the entry e covers.
C29_Frames(e) == e.gfn..(e.gfn + KVM_PAGES_PER_HPAGE(e.level) - 1)

\* C29: a zap clears every large leaf that has a guest frame in common with
\* the range and one outside it, with one write of a not-present value that
\* handle_changed_spte is told of; after the zap no guest frame the leaf
\* mapped is mapped, those outside the range included.
C29_PartialLargeLeafClearedWhole ==
    (LastIs("zap_hva_range") /\ ~bug) =>
        \A r \in RootsOf(pre.roots) : \A e \in C29_PartialLargeLeaves(r) :
            /\ ~is_shadow_present_pte(spt[e.pt][e.idx])
            /\ \E w \in Events("write") :
                  /\ log[w].pt = e.pt
                  /\ log[w].idx = e.idx
                  /\ log[w].old = e.spte
                  /\ ~is_shadow_present_pte(log[w].new)
                  /\ WriteLevel(w) = e.level
                  /\ WriteGfn(w) = e.gfn
            /\ \A gfn \in C29_Frames(e) :
                  ~is_shadow_present_pte(Lookup(spt, r, sp[r].role.level, gfn).spte)

\* A zap of one page found a large page that mapped it.
C29_Witness ==
    /\ LastIs("zap_hva_range")
    /\ ~bug
    /\ ZapEnd = ZapStart + 1
    /\ \E r \in RootsOf(pre.roots) : \E e \in C29_PartialLargeLeaves(r) :
          \E gfn \in C29_Frames(e) : gfn < ZapStart \/ ZapEnd <= gfn

----------------------------------------------------------------------------
\* The page tables that hung below the removed entry of the write i, each
\* with the level of its entries and the first guest frame it maps.
C30_Tables(i) ==
    C18_Tables(pre.spt, spte_to_child_pt(log[i].old, WriteLevel(i)), WriteLevel(i) - 1,
               WriteGfn(i))

\* The free of the child table of the removed entry of the write i: the end
\* of the removal.
C30_End(i) ==
    CHOOSE f \in Events("free_page") :
        /\ f > i
        /\ log[f].pt = spte_to_child_pt(log[i].old, WriteLevel(i))
        /\ \A g \in Events("free_page") : (g > i /\ log[g].pt = log[f].pt) => f <= g

\* The writes of the removal of the write i to the entry idx of the table t.
C30_WritesTo(i, t, idx) ==
    {w \in Events("write") :
        i < w /\ w < C30_End(i) /\ log[w].pt = t.pt /\ log[w].idx = idx}

\* The dirty notifications of the removal of the write i.
C30_Notifications(i) ==
    {k \in Events("kvm_set_pfn_dirty") : i < k /\ k < C30_End(i)}

\* The dirty leaves below the removed entry of the write i.
C30_DirtyLeaves(i) ==
    {e \in {<<t, idx>> : t \in C30_Tables(i), idx \in PtIndexes} :
        /\ PresentLeaf(pre.spt[e[1].pt][e[2]], e[1].level)
        /\ is_dirty_spte(pre.spt[e[1].pt][e[2]])}

\* C30: in the removal of a present non-leaf entry every entry of every page
\* table below it, at any depth, is cleared by one write, and
\* handle_changed_spte is told its old value, its level and its guest
\* frame; the call sends one dirty notification, for the frame of the
\* entry, when the entry was a dirty present leaf, and none otherwise; no
\* other dirty notification is sent in the removal; and each of the page
\* tables is freed after all its entries were cleared.
C30_SubtreeNotifiedAndCleared ==
    ~bug =>
        \A i \in C4_Removals :
            /\ \A t \in C30_Tables(i) : \A idx \in PtIndexes :
                  \E w \in C30_WritesTo(i, t, idx) :
                      /\ C30_WritesTo(i, t, idx) = {w}
                      /\ log[w].old = pre.spt[t.pt][idx]
                      /\ ~is_shadow_present_pte(log[w].new)
                      /\ log[w + 1].ev = "handle_changed_spte"
                      /\ log[w + 1].old = pre.spt[t.pt][idx]
                      /\ log[w + 1].level = t.level
                      /\ log[w + 1].gfn = t.gfn + idx * KVM_PAGES_PER_HPAGE(t.level)
                      /\ IF <<t, idx>> \in C30_DirtyLeaves(i)
                         THEN \E k \in C15_Notifications(w + 1) :
                                 /\ C15_Notifications(w + 1) = {k}
                                 /\ log[k].pfn = spte_to_pfn(pre.spt[t.pt][idx])
                         ELSE C15_Notifications(w + 1) = {}
                      /\ \E f \in Events("free_page") :
                            /\ log[f].pt = t.pt
                            /\ w < f
                            /\ f <= C30_End(i)
            /\ Cardinality(C30_Notifications(i)) = Cardinality(C30_DirtyLeaves(i))
            /\ \A t \in C30_Tables(i) : t.pt \notin DOMAIN spt

\* An entry was removed that held a page table that held a page table with
\* a dirty page and a page that was not dirty.
C30_Witness ==
    /\ ~bug
    /\ \E i \in C4_Removals : \E t \in C30_Tables(i) :
          /\ t.level = WriteLevel(i) - 2
          /\ \E idx \in PtIndexes : <<t, idx>> \in C30_DirtyLeaves(i)
          /\ \E idx \in PtIndexes :
                /\ PresentLeaf(pre.spt[t.pt][idx], t.level)
                /\ ~is_dirty_spte(pre.spt[t.pt][idx])

----------------------------------------------------------------------------
\* The handle_changed_spte call i was given a new value equal to the old
\* one, or two values that are not present.
C31_NoChange(i) == log[i].old = log[i].new

C31_BothNotPresent(i) ==
    /\ log[i].old # log[i].new
    /\ ~is_shadow_present_pte(log[i].old)
    /\ ~is_shadow_present_pte(log[i].new)

\* C31: a handle_changed_spte call that is given a new value equal to the
\* old one, or an old and a new value that are both not present, does
\* nothing itself: no dirty notification, no flush request, no free of a
\* page table, no abort; the next event of the operation, if any, is the next
\* step of its caller.
C31_NoChangeNoEffect ==
    \A i \in Events("handle_changed_spte") :
        (C31_NoChange(i) \/ C31_BothNotPresent(i)) =>
            /\ C19_Direct(i) = <<>>
            /\ i < Len(log) =>
                  \/ log[i + 1].ev \in {"write", "visit", "KVM_REQ_TLB_FLUSH_CURRENT"}
                  \/ /\ log[i + 1].ev = "flush"
                     /\ log[i + 1].pages > KVM_PAGES_PER_HPAGE(log[i].level)

\* A page table was removed that held an entry that was never used and an
\* entry with the special value of a frame outside every memslot.
C31_Witness ==
    /\ ~bug
    /\ \E i, j \in Events("handle_changed_spte") :
          /\ C31_NoChange(i)
          /\ C31_BothNotPresent(j)
          /\ is_mmio_spte(log[j].old)
    /\ Events("free_page") # {}

----------------------------------------------------------------------------
\* The other arguments of the last call, when it was a fault.
FaultMapWritable == last.call[6]
FaultWrite == last.call[7]
FaultPrefault == last.call[8]
FaultWrprot == last.call[9]

\* The value the last fault computed for the entry of its target level.
C32_NewSpte ==
    IF is_noslot_pfn(FaultPfn)
    THEN make_mmio_spte(round_gfn_for_level(FaultGfn, FaultLevel))
    ELSE make_spte(FaultLevel, FaultPfn, FaultPrefault, FaultMapWritable,
                   FaultWrprot).spte

\* The entry of the target level for the guest frame of the last fault, as
\* the fault found it.
C32_Target ==
    EntryAt(pre.spt, root_hpa[FaultVcpu], pre.sp[root_hpa[FaultVcpu]].role.level,
            FaultGfn, FaultLevel)

\* The last call was a fault that found the value it computed in place.
C32_InPlace ==
    /\ LastIs("map")
    /\ root_hpa[FaultVcpu] # INVALID_PAGE
    /\ C32_Target.level = FaultLevel
    /\ C32_Target.spte = C32_NewSpte

\* C32 as the specification states it: a fault that finds the value it
\* computed already stored at the target level writes no entry, calls
\* handle_changed_spte for none, leaves every page table as it was, and sends
\* no dirty notification, requests no flush and frees no page.
C32_InPlaceChangesNothing ==
    C32_InPlace =>
        /\ Events("write") = {}
        /\ Events("handle_changed_spte") = {}
        /\ spt = pre.spt
        /\ sp = pre.sp
        /\ Events("kvm_set_pfn_dirty") = {}
        /\ Events("free_page") = {}
        /\ Events("flush") = {}
        /\ Events("KVM_REQ_TLB_FLUSH_CURRENT") = {}

----------------------------------------------------------------------------
\* The last call was a fault that had a root to walk and returned.
C33_Returned ==
    /\ LastIs("map")
    /\ ~bug
    /\ root_hpa[FaultVcpu] # INVALID_PAGE
    /\ is_tdp_mmu_root([sp |-> pre.sp], root_hpa[FaultVcpu])

\* make_spte had to write-protect the mapping of the last fault.
C33_WriteProtected ==
    /\ ~is_noslot_pfn(FaultPfn)
    /\ make_spte(FaultLevel, FaultPfn, FaultPrefault, FaultMapWritable,
                 FaultWrprot).ret = SET_SPTE_WRITE_PROTECTED_PT

\* C33: a fault that returns answers "needs emulation" when it is a write
\* and the mapping had to be write-protected, and when the value for the
\* target level is the special value of a frame outside every memslot,
\* whether the value was written or found in place; any other fault, a read
\* of a write-protected page among them, answers what the write or the
\* value found in place gave.
C33_EmulateIffWriteProtectedWriteOrMmio ==
    C33_Returned =>
        IF is_mmio_spte(C32_NewSpte) \/ (FaultWrite /\ C33_WriteProtected)
        THEN last.ret = RET_PF_EMULATE
        ELSE /\ last.ret # RET_PF_EMULATE
             /\ last.ret = IF C32_InPlace THEN RET_PF_SPURIOUS ELSE 0

\* A write fault found the write-protected mapping it asked for in place and
\* was sent to the emulator.
C33_Witness ==
    /\ C33_Returned
    /\ C32_InPlace
    /\ FaultWrite
    /\ C33_WriteProtected
    /\ last.ret = RET_PF_EMULATE

----------------------------------------------------------------------------
\* The root the last fault was handed: the one of the vCPU, or the one
\* named in the call.
C34_Root == IF Len(last.call) = 10 THEN last.call[10] ELSE root_hpa[FaultVcpu]

\* The last call was a fault on no root, or on a page no one counts as a
\* root.
C34_NoRoot ==
    /\ LastIs("map")
    /\ \/ C34_Root = INVALID_PAGE
       \/ pre.sp[C34_Root].root_count = 0

\* C34: a fault that is given no root, or a root page with no reference
\* left, returns "retry"; it writes no entry, allocates no page table and
\* requests no flush; when no zap that has yielded is to go on, the page
\* tables, the reference counts and the list of roots are as the fault
\* found them.
C34_NoRootIsRetry ==
    C34_NoRoot =>
        /\ ~bug
        /\ last.ret = RET_PF_RETRY
        /\ Events("write") = {}
        /\ Events("handle_changed_spte") = {}
        /\ Events("flush") \cup Events("flush_all")
             \cup Events("KVM_REQ_TLB_FLUSH_CURRENT") = {}
        /\ zapper.pc = "idle" => /\ spt = pre.spt
                                 /\ sp = pre.sp
                                 /\ tdp_mmu_roots = pre.roots

\* A fault was handed a root with no reference left that the zap, having
\* dropped the last one, left in the list.
C34_Witness ==
    /\ C34_NoRoot
    /\ C34_Root # INVALID_PAGE
    /\ C34_Root \in RootsOf(tdp_mmu_roots)
    /\ last.ret = RET_PF_RETRY

----------------------------------------------------------------------------
\* The writes of the last call that stored an entry that points to a page
\* table.
C35_Links ==
    {w \in Events("write") : PresentNonLeaf(log[w].new, WriteLevel(w))}

\* The page table the write w linked.
C35_Child(w) == spte_to_child_pt(log[w].new, WriteLevel(w))

\* The page tables of all roots after the last call, each with the level of
\* its entries.
C35_Tables ==
    UNION {C18_Tables(spt, r, sp[r].role.level, 0) : r \in RootsOf(tdp_mmu_roots)}

\* C35: every entry a fault stores that points to a page table replaces an
\* entry that is not present, above the target level; the page table is a
\* new one, on the list of pages; no entry of it was written before it was
\* linked, and after the fault every entry of it the fault did not write
\* after that is not present; the entry is the only one that points to it.
C35_LinksNewEmptyTable ==
    (LastIs("map") /\ ~bug) =>
        \A w \in C35_Links :
            /\ ~is_shadow_present_pte(log[w].old)
            /\ WriteLevel(w) > FaultLevel
            /\ C35_Child(w) \notin DOMAIN pre.spt
            /\ C35_Child(w) \in DOMAIN spt
            /\ C35_Child(w) \in tdp_mmu_pages
            /\ \A v \in Events("write") : log[v].pt = C35_Child(w) => w < v
            /\ \A idx \in PtIndexes :
                  \/ ~is_shadow_present_pte(spt[C35_Child(w)][idx])
                  \/ \E v \in Events("write") :
                        v > w /\ log[v].pt = C35_Child(w) /\ log[v].idx = idx
            /\ \A u \in C35_Links : C35_Child(u) = C35_Child(w) => u = w
            /\ \A t \in C35_Tables : \A idx \in PtIndexes :
                  spte_to_child_pt(spt[t.pt][idx], t.level) = C35_Child(w)
                      => t.pt = log[w].pt /\ idx = log[w].idx

\* A fault for a small page linked a page table below the root, found a
\* large page in it, cleared it and linked a second page table in its place.
C35_Witness ==
    /\ LastIs("map")
    /\ ~bug
    /\ Cardinality(C35_Links) >= 1
    /\ \E w \in C35_Links : \E v \in Events("write") :
          /\ v < w
          /\ log[v].pt = log[w].pt
          /\ log[v].idx = log[w].idx
          /\ PresentLeaf(log[v].old, WriteLevel(v))

----------------------------------------------------------------------------
\* The log of the zap that has yielded, or of the zap that was the last call.
C36_ZapLog ==
    IF zapper.pc = "yielded" THEN zapper.log
    ELSE IF LastIs("zap_gfn_range") THEN log
    ELSE <<>>

\* The guest frame of the entry the zap had cleared when it yielded at the
\* event u of the log l: the position of its walk.
C36_Position(l, u) ==
    LET w == CHOOSE w \in C27_LoopWrites(l) :
                 w < u /\ \A v \in C27_LoopWrites(l) : v < u => v <= w
    IN l[w + 1].gfn

\* C36 as the specification states it: the walk of a zap that yields moves
\* on between one yield and the next, so that the zap comes to an end
\* however often it yields and whatever is mapped in between: of two yields
\* the later one is at a guest frame past the one of the earlier, and no
\* entry cleared after a yield is for a guest frame before the one of the
\* yield.
C36_WalkAdvances ==
    /\ \A u, v \in C26_Unlocks(C36_ZapLog) :
          u < v => C36_Position(C36_ZapLog, u) < C36_Position(C36_ZapLog, v)
    /\ \A u \in C26_Unlocks(C36_ZapLog) : \A w \in C27_LoopWrites(C36_ZapLog) :
          w > u => C36_Position(C36_ZapLog, u) <= C36_ZapLog[w + 1].gfn

----------------------------------------------------------------------------
\* The last call was a fault that found, at its target level, a present leaf
\* for another host frame than the one it was called with.
C37_OtherFrameMapped ==
    /\ LastIs("map")
    /\ root_hpa[FaultVcpu] # INVALID_PAGE
    /\ ~is_noslot_pfn(FaultPfn)
    /\ C32_Target.level = FaultLevel
    /\ PresentLeaf(C32_Target.spte, FaultLevel)
    /\ spte_to_pfn(C32_Target.spte) # FaultPfn

\* C37: a fault that finds at its target level a present leaf for another
\* host frame than its own is stopped at BUG(): the write of the new leaf
\* and the handle_changed_spte call for it are the last things it does, it
\* returns no outcome, and no flush is requested and no dirty notification
\* sent for the leaf it replaced.
C37_OtherFrameAborts ==
    C37_OtherFrameMapped =>
        /\ bug
        /\ last.ret \notin C24_Outcomes
        /\ Len(log) >= 3
        /\ log[Len(log)].ev = "BUG"
        /\ log[Len(log) - 1].ev = "handle_changed_spte"
        /\ log[Len(log) - 1].old = C32_Target.spte
        /\ log[Len(log) - 1].new = C32_NewSpte
        /\ log[Len(log) - 2].ev = "write"
        /\ log[Len(log) - 2].pt = C32_Target.pt
        /\ log[Len(log) - 2].idx = C32_Target.idx
        /\ Cardinality(Events("write")) = 1
        /\ Events("flush") = {}
        /\ Events("kvm_set_pfn_dirty") = {}

\* A fault for a large page found a large page of another host frame.
C37_Witness ==
    /\ C37_OtherFrameMapped
    /\ FaultLevel > PG_LEVEL_4K
    /\ bug

\* No vCPU holds a root or is getting one, and no thread is zapping: every
\* worker has released its roots, and the MMU can be uninitialised.
C38_AllReleased ==
    /\ zapper.pc = "idle"
    /\ \A v \in Vcpus : pc[v] = "idle" /\ root_hpa[v] = INVALID_PAGE

\* The roots on the list of roots that no one holds a reference to.
C38_Unheld == {root \in RootsOf(tdp_mmu_roots) : sp[root].root_count = 0}

\* C38: a root whose reference count has dropped to 0 is freed and taken
\* off the list of roots, also when the last reference is the one a zap
\* over all roots drops after it yielded: no root without a reference is
\* on the list once the zap has returned, and the list is empty, as
\* kvm_mmu_uninit_tdp_mmu expects at line 39, when all workers have
\* released their roots.
C38_ReleasedRootsAreFreed ==
    /\ zapper.pc = "idle" => C38_Unheld = {}
    /\ C38_AllReleased => tdp_mmu_roots = <<>>

----------------------------------------------------------------------------
\* C39: every page table a fault links under an entry of level L records
\* level L - 1, the level of the entries it holds, in its role, and as its
\* gfn the first guest frame the entry covers; a root records the level of
\* the root and gfn 0.
C39_PagesRecordLevelAndGfn ==
    /\ \A root \in RootsOf(tdp_mmu_roots) :
          sp[root].role.level = RootLevel /\ sp[root].gfn = 0
    /\ (LastIs("map") /\ ~bug) =>
          \A w \in C35_Links :
              /\ sp[C35_Child(w)].role.level = WriteLevel(w) - 1
              /\ sp[C35_Child(w)].gfn = round_gfn_for_level(FaultGfn, WriteLevel(w))

====
